---- MODULE Spec2Model ----
(***************************************************************************)
(* A model of the node store / cache / seal / lock core of aiida_core.     *)
(*                                                                         *)
(* The specifications of this module share its variables:                  *)
(*   Spec       node creation, attributes, links, store(), store_all() and *)
(*              the cache-hit path of store()                              *)
(*   SpecLinks  the same for nodes without content and chains of links     *)
(*   SpecBare   the same for instances of Node and ProcessNode themselves  *)
(*   SpecStore  store() followed statement by statement through _db_store  *)
(*              and _store_cached_input_links called on its own            *)
(*   SpecAdd    add_incoming on a stored target by concurrent workers      *)
(*   SpecProc   the process node: process_state, updatable attributes,     *)
(*              seal                                                       *)
(*   SpecKill   WorkCalculation.kill() over a tree of called calculations  *)
(*   SpecEngine the transitions of a process write by write, with crashes  *)
(*   SpecLock   Calculation.lock() / force_unlock() on one node            *)
(*   SpecExtras set_extra, rehash and clear_hash on a process node         *)
(*   SpecRun    run(process) without errors, with the fairness of its loop *)
(*   SpecCache  store() of a node next to a stored calculation with        *)
(*              outputs, with room for the clones of a cache hit           *)
(*   SpecConfig the caching configuration under nested enable_caching /    *)
(*              disable_caching scopes                                     *)
(*                                                                         *)
(* Conventions.  Python None is the string "None" for attribute values,    *)
(* 0 for a pk or a uuid, and <<>> for a missing folder or a missing extra. *)
(* A hash is the tuple of the hashed objects itself (make_hash is taken to *)
(* be injective), <<"None">> is the None that get_hash returns on failure. *)
(***************************************************************************)
EXTENDS Integers, Sequences, FiniteSets, TLC

\* ----------------------------------------------------------------- bounds
MaxNodes == 3       \* node instances that may be created
MaxEdits == 1       \* successful content edits (set_attr, add_path, label)
MaxProcs == 2       \* process nodes the engine runs
MaxWorkers == 3     \* workers, each with its own handle of the locked node
MaxDepth == 2       \* lock() scopes one handle may nest
MaxLinks == 1       \* successful add_incoming calls made by the user
MaxChain == 2       \* the same, where the nodes have no content (SpecLinks)
MaxStores == 2      \* nodes on which store() is called step by step (SpecStore)
MaxAdders == 2      \* workers that call add_incoming at the same time (SpecAdd)
MaxSteps == 2       \* suspensions of one process
MaxOutputs == 1     \* outputs of the calculation a cache hit clones (SpecCache)
MaxScopes == 2      \* enable_caching / disable_caching scopes that may nest

Nodes == 1 .. MaxNodes

\* F applied to the value of v, which is computed once.
With(v, F(_)) == CHOOSE out \in {F(r) : r \in {v}} : TRUE

\* ------------------------------------------------------------- vocabulary
None == "None"
NaN == "nan"                \* a float clean_value rejects
Unhashable == "object"      \* a value make_hash has no rule for
NoUuid == 0
NoPk == 0
NoFolder == <<>>            \* the folder does not exist on disk
NoExtra == <<>>             \* the extras key is not present
NoneHash == <<"None">>      \* the extras key holds None

Classes == {"Node", "Data", "Calc"}
Files == {"f"}

SEALED_KEY == "_sealed"
CHECKPOINT_KEY == "checkpoints"
EXIT_STATUS_KEY == "exit_status"
PROCESS_STATE_KEY == "process_state"
DO_ABORT_KEY == "_do_abort"

\* The attribute keys the model follows: one content key and the keys of the
\* process node that the claims name.
Keys == {"x", PROCESS_STATE_KEY, EXIT_STATUS_KEY, CHECKPOINT_KEY, SEALED_KEY, DO_ABORT_KEY}

NoAttrs == [k \in Keys |-> None]

NoExtras == [_aiida_hash |-> NoExtra, _aiida_cached_from |-> NoUuid, tag |-> None]

VARIABLES
    nodes,      \* node id -> the in-memory instance and its database model
    rows,       \* ids of the nodes that have a committed database row
    links,      \* the persisted links: records [src, tgt, type, label]
    caching,    \* the caching configuration: [default, enabled, disabled]
    edits,      \* successful content edits made so far
    nlinks,     \* successful user add_incoming calls made so far
    dbnode,     \* the locked calculation's row: [stored, public]
    handles,    \* worker -> its handle of that calculation and where it is in lock()
    hooks,      \* the handles whose force_unlock is a registered shutdown callback
    pc,         \* node id -> where its store() call is inside _db_store
    session,    \* the scoped session: what was added and is not committed yet
    adders,     \* worker -> its add_incoming call on a stored target
    engine,     \* process -> its instance in a worker's memory
    scopes      \* the configurations the open enable_caching/disable_caching scopes saved

nodeVars == <<nodes, rows, links, caching, edits, nlinks>>

lockVars == <<dbnode, handles, hooks>>

stepVars == <<pc, session>>

\* What an operation on the nodes, and what lock(), leaves alone.
callVars == <<adders, engine, scopes>>

sideVars == <<lockVars, stepVars, callVars>>

offLockVars == <<nodeVars, stepVars, callVars>>

vars == <<nodes, rows, links, caching, edits, nlinks, dbnode, handles, hooks, pc, session,
         adders, engine, scopes>>

\* ------------------------------------------------------------ the node
\* A node instance that was not created yet.  The fields are those of
\* AbstractNode.__init__ and Node.__init__ plus the columns of its DbNode;
\* clone_of records, for a node made by clone(), the node it was cloned from.
BlankNode ==
    [cls |-> "none", to_be_stored |-> TRUE, uuid |-> NoUuid, pk |-> NoPk,
     label |-> "", description |-> "",
     attrs_cache |-> NoAttrs, cache_deleted |-> FALSE, attributes |-> NoAttrs,
     extras |-> NoExtras, temp_folder |-> NoFolder, repo_folder |-> NoFolder,
     incoming_cache |-> <<>>, clone_of |-> 0]

UuidOf(n) == 100 + n

PkOf(n) == n

Created(nd) == nd.cls # "none"

IsStored(nd) == ~nd.to_be_stored

\* Every class is storable.
StorableAnyClass(cls) == TRUE

\* _storable: false for the bare Node and for ProcessNode itself ("Process"),
\* true for Data, the calculation and workflow nodes and their subclasses.
Storable(cls) == cls \notin {"Node", "Process"}

\* _cacheable: true from Node on, false from ProcessNode on; "Workflow" is a
\* storable subclass of ProcessNode that leaves it false, "Calc" one that is
\* marked as cacheable.
Cacheable(cls) == cls \in Classes

Validate(nd) == TRUE

IsValidCache(nd) == TRUE

\* Sealable contributes its own key to the updatable attributes.
SealableUpdatable == {SEALED_KEY}

\* The updatable attributes of a process without the exit status.
ProcessUpdatableNoExitStatus ==
    {"paused", CHECKPOINT_KEY, "exception", "exit_message", "process_label",
     PROCESS_STATE_KEY, "process_status"}

ProcessUpdatable ==
    {"paused", CHECKPOINT_KEY, "exception", "exit_message", EXIT_STATUS_KEY,
     "process_label", PROCESS_STATE_KEY, "process_status"}

\* The calculations a workflow calls: work, job and function calculations.
\* They may take the kill request after they are stored.
CalledClasses == {"Work", "Job", "Function"}

CalledUpdatable == SealableUpdatable \cup ProcessUpdatable \cup {DO_ABORT_KEY}

\* _updatable_attributes without what ProcessNode adds to it.
UpdatableAttributesSealOnly(cls) ==
    IF cls \in {"Calc", "Process", "Workflow"} \cup CalledClasses THEN SealableUpdatable
    ELSE {}

UpdatableAttributes(cls) ==
    IF cls \in {"Calc", "Process", "Workflow"} THEN SealableUpdatable \cup ProcessUpdatable
    ELSE IF cls \in CalledClasses THEN CalledUpdatable
    ELSE {}

HashIgnoredAttributes(cls) == {}

GetAttrs(nd) == IF IsStored(nd) THEN nd.attributes ELSE nd.attrs_cache

IsSealed(nd) == GetAttrs(nd)[SEALED_KEY] # None

\* _get_temp_folder creates the sandbox at its first use.
GetTempFolder(nd) == IF nd.temp_folder = NoFolder THEN <<{}>> ELSE nd.temp_folder

Folder(nd) == IF IsStored(nd) THEN nd.repo_folder ELSE GetTempFolder(nd)

\* _get_objects_to_hash that hashes the updatable attributes too.
GetObjectsToHashUpdatable(nd) ==
    <<"version",
      [k \in Keys |->
          IF k \notin HashIgnoredAttributes(nd.cls) THEN GetAttrs(nd)[k] ELSE None],
      Folder(nd),
      None>>

GetObjectsToHash(nd) ==
    <<"version",
      [k \in Keys |->
          IF k \notin HashIgnoredAttributes(nd.cls) /\ k \notin UpdatableAttributes(nd.cls)
          THEN GetAttrs(nd)[k] ELSE None],
      Folder(nd),
      None>>

\* make_hash raises on such a value; get_hash(ignore_errors=True) then
\* returns None.
MakeHashFails(objs) == \E k \in Keys : objs[2][k] = Unhashable

\* get_hash(ignore_errors): the hash, or the exception of make_hash when
\* the caller does not have it ignored.
GetHashCall(nd, ignore_errors) ==
    With(GetObjectsToHash(nd),
         LAMBDA objs : IF ~MakeHashFails(objs)
                       THEN [value |-> <<"h">> \o objs, exc |-> "none"]
                       ELSE [value |-> NoneHash,
                             exc |-> IF ignore_errors THEN "none" ELSE "Exception"])

\* get_hash() as the node calls it, with ignore_errors=True
GetHash(nd) == GetHashCall(nd, TRUE).value

\* get_use_cache that looks at the default only.
GetUseCacheDefaultOnly(cfg, cls) == cfg.default

\* get_use_cache(cls): an explicit entry of the configuration wins over the
\* default.
GetUseCache(cfg, cls) ==
    IF cls \in cfg.enabled THEN TRUE
    ELSE IF cls \in cfg.disabled THEN FALSE
    ELSE cfg.default

\* ------------------------------------------------------------ the world
\* The operations of a node are functions of the "world"
\* [nodes, rows, links, caching]; each returns the new world and
\* the exception that left the call ("none" when it returned).
World == [nodes |-> nodes, rows |-> rows, links |-> links, caching |-> caching]

Ok(w) == [w |-> w, exc |-> "none", path |-> "none", cand |-> 0]

Raise(w, e) == [w |-> w, exc |-> e, path |-> "none", cand |-> 0]

OutgoingLinks(w, n, type) == {l \in w.links : l.src = n /\ l.type = type}

IncomingLinks(w, n) == {l \in w.links : l.tgt = n}

CheckAreParentsStored(w, n) ==
    \A i \in 1 .. Len(w.nodes[n].incoming_cache) :
        IsStored(w.nodes[w.nodes[n].incoming_cache[i].node])

CachedLinkSet(w, n) ==
    {[src |-> w.nodes[n].incoming_cache[i].node, tgt |-> n,
      type |-> w.nodes[n].incoming_cache[i].link_type,
      label |-> w.nodes[n].incoming_cache[i].link_label] :
        i \in 1 .. Len(w.nodes[n].incoming_cache)}

\* The uniqueness constraint on (target, label) that _add_dblink_from meets.
LabelCollision(w, n) ==
    \/ \E i, j \in 1 .. Len(w.nodes[n].incoming_cache) :
          /\ i # j
          /\ w.nodes[n].incoming_cache[i].link_label = w.nodes[n].incoming_cache[j].link_label
    \/ \E l \in IncomingLinks(w, n), i \in 1 .. Len(w.nodes[n].incoming_cache) :
          l.label = w.nodes[n].incoming_cache[i].link_label

\* StoreCachedInputLinks that leaves the stored links in the cache.
StoreCachedInputLinksKept(w, n) ==
    IF ~IsStored(w.nodes[n]) THEN Raise(w, "ModificationNotAllowed")
    ELSE IF ~CheckAreParentsStored(w, n) THEN Raise(w, "ModificationNotAllowed")
    ELSE IF LabelCollision(w, n) THEN Raise(w, "UniquenessError")
    ELSE Ok([w EXCEPT !.links = @ \cup CachedLinkSet(w, n)])

\* Node._store_cached_input_links
StoreCachedInputLinks(w, n) ==
    IF ~IsStored(w.nodes[n]) THEN Raise(w, "ModificationNotAllowed")
    ELSE IF ~CheckAreParentsStored(w, n) THEN Raise(w, "ModificationNotAllowed")
    ELSE IF LabelCollision(w, n) THEN Raise(w, "UniquenessError")
    ELSE Ok([w EXCEPT !.links = @ \cup CachedLinkSet(w, n),
                      !.nodes[n].incoming_cache = <<>>])

\* replace_with_folder(src, move, overwrite=True): the destination takes the
\* contents of the source; with move the source is gone afterwards.
ReplaceWithFolder(src) == <<IF src = NoFolder THEN {} ELSE src[1]>>

\* AddToSession that drops the cached attributes instead of writing them.
AddToSessionNoAttributes(nd) ==
    [nd EXCEPT !.attrs_cache = NoAttrs,
               !.cache_deleted = TRUE,
               !.to_be_stored = FALSE]

\* _db_store, lines 291-302: session.add, the attributes in one write, the
\* caches dropped, the node flagged as stored
AddToSession(nd) ==
    [nd EXCEPT !.attributes = nd.attrs_cache,
               !.attrs_cache = NoAttrs,
               !.cache_deleted = TRUE,
               !.to_be_stored = FALSE]

\* _set_db_extra that refuses a sealed node.
SetDbExtraUnlessSealed(nd, key, value, exclusive) ==
    IF exclusive THEN [nd |-> nd, exc |-> "NotImplementedError"]
    ELSE IF nd.attributes[SEALED_KEY] # None
    THEN [nd |-> nd, exc |-> "ModificationNotAllowed"]
    ELSE [nd |-> [nd EXCEPT !.extras[key] = value], exc |-> "none"]

\* _set_db_extra: the extra goes to the row without a check.
SetDbExtra(nd, key, value, exclusive) ==
    IF exclusive THEN [nd |-> nd, exc |-> "NotImplementedError"]
    ELSE [nd |-> [nd EXCEPT !.extras[key] = value], exc |-> "none"]

\* rehash
Rehash(nd) == SetDbExtra(nd, "_aiida_hash", GetHash(nd), FALSE)

\* clear_hash
ClearHash(nd) == SetDbExtra(nd, "_aiida_hash", NoneHash, FALSE)

\* SetHashExtra left out: no hash is written.
SetHashExtraSkipped(nd) == nd

\* _db_store, line 326: the hash goes into the extras of the stored node
SetHashExtra(nd) == [nd EXCEPT !.extras._aiida_hash = GetHash(nd)]

\* _db_store, line 289: the sandbox is moved to the repository
MoveToRepository(nd) ==
    [nd EXCEPT !.repo_folder = ReplaceWithFolder(GetTempFolder(nd)),
               !.temp_folder = NoFolder]

\* MoveToSandbox left out: the handler only raises again.
MoveToSandboxSkipped(nd) == nd

\* _db_store, lines 320-324: the files go back to a sandbox
MoveToSandbox(nd) ==
    [nd EXCEPT !.temp_folder = ReplaceWithFolder(nd.repo_folder),
               !.repo_folder = NoFolder]

\* _db_store, lines 308-326: the commit gives the row its primary key,
\* unique in the table, and the hash is written
Commit(w, n) ==
    [w EXCEPT !.rows = @ \cup {n},
              !.nodes[n] = SetHashExtra([w.nodes[n] EXCEPT !.pk = PkOf(n)])]

\* Node._db_store.  fault = "commit" makes session.commit() raise.
DbStore(w, n, fault) ==
    With(StoreCachedInputLinks(
             [w EXCEPT !.nodes[n] = AddToSession(MoveToRepository(w.nodes[n]))], n),
         LAMBDA r :
            IF r.exc # "none" \/ fault = "commit"
            THEN \* the bare except: nothing of the session was committed
                 Raise([w EXCEPT !.nodes[n] = MoveToSandbox(r.w.nodes[n])],
                       IF r.exc # "none" THEN r.exc ELSE "SQLAlchemyError")
            ELSE [Ok(Commit(r.w, n)) EXCEPT !.path = "db_store"])

\* AbstractNode.get_cache_source and is_created_from_cache
GetCacheSource(nd) == nd.extras._aiida_cached_from

IsCreatedFromCache(nd) == GetCacheSource(nd) # NoUuid

\* The stored nodes of one class whose _aiida_hash extra is the given hash
\* and that are a valid cache.
\* The query without the filter on the class.
SameHashRowsAnyClass(w, cls, hash) ==
    {c \in w.rows :
        /\ w.nodes[c].extras._aiida_hash = hash
        /\ IsValidCache(w.nodes[c])}

SameHashRows(w, cls, hash) ==
    {c \in w.rows :
        /\ w.nodes[c].cls = cls
        /\ w.nodes[c].extras._aiida_hash = hash
        /\ IsValidCache(w.nodes[c])}

\* _iter_all_same_nodes without the test of an empty hash.
IterAllSameNodesAnyHash(w, n) ==
    IF ~Cacheable(w.nodes[n].cls) THEN {}
    ELSE SameHashRows(w, w.nodes[n].cls, GetHash(w.nodes[n]))

\* _iter_all_same_nodes
IterAllSameNodes(w, n) ==
    IF ~Cacheable(w.nodes[n].cls) THEN {}
    ELSE With(GetHash(w.nodes[n]),
              LAMBDA hash : IF hash = NoneHash THEN {}
                            ELSE SameHashRows(w, w.nodes[n].cls, hash))

\* The first row of a query without ordering: any of them may come first;
\* pick names the one the database yields first when it is among them.
First(w, same, pick) ==
    IF same = {} THEN 0
    ELSE IF pick \in same THEN pick
    ELSE CHOOSE c \in same : \A d \in same : w.nodes[c].pk <= w.nodes[d].pk

\* _get_same_node: the first row the query yields, or 0 (None)
GetSameNode(w, n, pick) == First(w, IterAllSameNodes(w, n), pick)

FreeSlots(w) == {m \in DOMAIN w.nodes : ~Created(w.nodes[m])}

NewId(w) == CHOOSE m \in FreeSlots(w) : \A k \in FreeSlots(w) : m <= k

\* Data.clone(): a new unstored node with the attributes, the files, the
\* label and the description of the original; no extras and no links.
Clone(w, o) ==
    [BlankNode EXCEPT !.cls = w.nodes[o].cls,
                      !.uuid = UuidOf(NewId(w)),
                      !.label = w.nodes[o].label,
                      !.description = w.nodes[o].description,
                      !.attrs_cache = GetAttrs(w.nodes[o]),
                      !.temp_folder = ReplaceWithFolder(Folder(w.nodes[o])),
                      !.clone_of = o]

RECURSIVE StoreNode(_, _, _, _, _)
RECURSIVE AddOutputsFromCache(_, _, _, _)

\* _store_from_cache, lines 585-597: the label, the description, the
\* attributes but SEALED_KEY and the folder of the cache node are taken over
CopyFromCache(nd, cache_node) ==
    [nd EXCEPT
        !.label = cache_node.label,
        !.description = cache_node.description,
        !.attrs_cache = [k \in Keys |->
            IF GetAttrs(cache_node)[k] # None /\ k # SEALED_KEY
            THEN GetAttrs(cache_node)[k] ELSE nd.attrs_cache[k]],
        !.temp_folder = ReplaceWithFolder(Folder(cache_node))]

\* StoreFromCache that does not record where the node came from.
StoreFromCacheUnmarked(w, n, c, fault, pick) ==
    IF OutgoingLinks(w, c, "RETURN") # {}
    THEN [Raise([w EXCEPT !.nodes[n] = CopyFromCache(w.nodes[n], w.nodes[c])],
                "ValueError") EXCEPT !.path = "cache", !.cand = c]
    ELSE With(StoreNode([w EXCEPT !.nodes[n] = CopyFromCache(w.nodes[n], w.nodes[c])],
                        n, "false", fault, pick),
              LAMBDA r : [r EXCEPT !.path = "cache", !.cand = c])

\* StoreFromCache that takes a cache node whatever its links are.
StoreFromCacheAnyLinks(w, n, c, fault, pick) ==
    With(StoreNode([w EXCEPT !.nodes[n] = CopyFromCache(w.nodes[n], w.nodes[c])],
                   n, "false", fault, pick),
         LAMBDA r :
            IF r.exc # "none"
            THEN [r EXCEPT !.path = "cache", !.cand = c]
            ELSE [r EXCEPT !.w.nodes[n].extras._aiida_cached_from = w.nodes[c].uuid,
                           !.path = "cache", !.cand = c])

\* AbstractNode._store_from_cache
StoreFromCache(w, n, c, fault, pick) ==
    IF OutgoingLinks(w, c, "RETURN") # {}
    THEN [Raise([w EXCEPT !.nodes[n] = CopyFromCache(w.nodes[n], w.nodes[c])],
                "ValueError") EXCEPT !.path = "cache", !.cand = c]
    ELSE With(StoreNode([w EXCEPT !.nodes[n] = CopyFromCache(w.nodes[n], w.nodes[c])],
                        n, "false", fault, pick),
              LAMBDA r :
                 IF r.exc # "none"
                 THEN [r EXCEPT !.path = "cache", !.cand = c]
                 ELSE [r EXCEPT !.w.nodes[n].extras._aiida_cached_from = w.nodes[c].uuid,
                                !.path = "cache", !.cand = c])

\* OutputClone without the link from n.
OutputCloneUnlinked(w, n, entry) == Clone(w, entry.tgt)

\* The clone of the target of a CREATE link of the cache node, with its
\* link from n in the cache of incoming links.
OutputClone(w, n, entry) ==
    [Clone(w, entry.tgt) EXCEPT !.incoming_cache =
        <<[node |-> n, link_type |-> "CREATE", link_label |-> entry.label]>>]

\* AbstractNode._add_outputs_from_cache, over the CREATE links of the cache
\* node that are still to be cloned.
AddOutputsFromCache(w, n, todo, pick) ==
    IF todo = {} THEN Ok(w)
    ELSE IF FreeSlots(w) = {} THEN Raise(w, "OutOfBound")   \* MaxNodes is reached
    ELSE With(CHOOSE l \in todo : TRUE,
              LAMBDA entry :
                 With(StoreNode([w EXCEPT !.nodes[NewId(w)] = OutputClone(w, n, entry)],
                                NewId(w), "default", "none", pick),
                      LAMBDA r :
                         IF r.exc # "none" THEN r
                         ELSE AddOutputsFromCache(r.w, n, todo \ {entry}, pick)))

\* store, lines 554-557: use_cache is "default" (None), "true" or "false"
UseCache(w, n, use_cache) ==
    IF use_cache = "default" THEN GetUseCache(w.caching, w.nodes[n].cls)
    ELSE use_cache = "true"

\* store, lines 558-564: the cache hit
StoreFromSameNode(w, n, same_node, fault, pick) ==
    With(StoreFromCache(w, n, same_node, fault, pick),
         LAMBDA r :
            IF r.exc # "none" THEN r
            ELSE With(AddOutputsFromCache(r.w, n,
                          OutgoingLinks(r.w, same_node, "CREATE"), pick),
                      LAMBDA o : [o EXCEPT !.path = "cache", !.cand = same_node]))

\* store() that does not look at _to_be_stored: a stored node is stored again.
StoreNodeAgain(w, n, use_cache, fault, pick) ==
    IF ~Storable(w.nodes[n].cls) THEN Raise(w, "StoringNotAllowed")
    ELSE IF ~Validate(w.nodes[n]) THEN Raise(w, "ValidationError")
    ELSE IF ~CheckAreParentsStored(w, n) THEN Raise(w, "ModificationNotAllowed")
    ELSE With(IF UseCache(w, n, use_cache) THEN GetSameNode(w, n, pick) ELSE 0,
              LAMBDA same_node :
                 IF same_node # 0
                 THEN StoreFromSameNode(w, n, same_node, fault, pick)
                 ELSE DbStore(w, n, fault))

\* store() without the check of the parents at lines 551-552.
StoreNodeParentsUnchecked(w, n, use_cache, fault, pick) ==
    IF ~Storable(w.nodes[n].cls) THEN Raise(w, "StoringNotAllowed")
    ELSE IF ~Validate(w.nodes[n]) THEN Raise(w, "ValidationError")
    ELSE IF ~w.nodes[n].to_be_stored THEN Ok(w)
    ELSE With(IF UseCache(w, n, use_cache) THEN GetSameNode(w, n, pick) ELSE 0,
              LAMBDA same_node :
                 IF same_node # 0
                 THEN StoreFromSameNode(w, n, same_node, fault, pick)
                 ELSE DbStore(w, n, fault))

\* AbstractNode.store(with_transaction, use_cache)
StoreNode(w, n, use_cache, fault, pick) ==
    IF ~Storable(w.nodes[n].cls) THEN Raise(w, "StoringNotAllowed")
    ELSE IF ~Validate(w.nodes[n]) THEN Raise(w, "ValidationError")
    ELSE IF ~w.nodes[n].to_be_stored THEN Ok(w)
    ELSE IF ~CheckAreParentsStored(w, n) THEN Raise(w, "ModificationNotAllowed")
    ELSE With(IF UseCache(w, n, use_cache) THEN GetSameNode(w, n, pick) ELSE 0,
              LAMBDA same_node :
                 IF same_node # 0
                 THEN StoreFromSameNode(w, n, same_node, fault, pick)
                 ELSE DbStore(w, n, fault))

\* AbstractNode._store_input_nodes, from the i-th cached link on.
RECURSIVE StoreInputNodes(_, _, _, _)
StoreInputNodes(w, n, i, pick) ==
    IF i > Len(w.nodes[n].incoming_cache) THEN Ok(w)
    ELSE With(IF IsStored(w.nodes[w.nodes[n].incoming_cache[i].node]) THEN Ok(w)
              ELSE StoreNode(w, w.nodes[n].incoming_cache[i].node, "default", "none", pick),
              LAMBDA r :
                 IF r.exc # "none" THEN r ELSE StoreInputNodes(r.w, n, i + 1, pick))

\* _db_store_all: the node is stored, then its cached links
StoreWithLinks(w, n, use_cache, pick) ==
    With(StoreNode(w, n, use_cache, "none", pick),
         LAMBDA r :
            IF r.exc # "none" THEN r
            ELSE With(StoreCachedInputLinks(r.w, n),
                      LAMBDA c : [c EXCEPT !.path = r.path, !.cand = r.cand]))

\* store_all() that does not store the parents first.
StoreAllNodeNoCascade(w, n, use_cache, pick) ==
    IF IsStored(w.nodes[n]) THEN Raise(w, "ModificationNotAllowed")
    ELSE IF \E i \in 1 .. Len(w.nodes[n].incoming_cache) :
                ~CheckAreParentsStored(w, w.nodes[n].incoming_cache[i].node)
    THEN Raise(w, "ModificationNotAllowed")
    ELSE StoreWithLinks(w, n, use_cache, pick)

\* AbstractNode.store_all and Node._db_store_all
StoreAllNode(w, n, use_cache, pick) ==
    IF IsStored(w.nodes[n]) THEN Raise(w, "ModificationNotAllowed")
    ELSE IF \E i \in 1 .. Len(w.nodes[n].incoming_cache) :
                ~CheckAreParentsStored(w, w.nodes[n].incoming_cache[i].node)
    THEN Raise(w, "ModificationNotAllowed")
    ELSE With(StoreInputNodes(w, n, 1, pick),
              LAMBDA p :
                 IF p.exc # "none" THEN p ELSE StoreWithLinks(p.w, n, use_cache, pick))

\* The guard of _set_attr: a sealed node takes no write, a stored node only
\* a write to one of its updatable attributes.
SetAttrError(nd, key) ==
    IF IsSealed(nd) THEN "ModificationNotAllowed"
    ELSE IF IsStored(nd) /\ key \notin UpdatableAttributes(nd.cls)
    THEN "ModificationNotAllowed"
    ELSE "none"

\* clean_value: a NaN cannot be serialized.
CleanValueError(value) == IF value = NaN THEN "ValidationError" ELSE "none"

SetAttrNode(nd, key, value, clean) ==
    IF SetAttrError(nd, key) # "none" THEN [nd |-> nd, exc |-> "ModificationNotAllowed"]
    ELSE IF clean /\ CleanValueError(value) # "none"
    THEN [nd |-> nd, exc |-> "ValidationError"]
    ELSE IF IsStored(nd)
    THEN [nd |-> [nd EXCEPT !.attributes[key] = value], exc |-> "none"]
    ELSE [nd |-> [nd EXCEPT !.attrs_cache[key] = value], exc |-> "none"]

\* AbstractNode.add_path
AddPathNode(nd, f) ==
    IF IsStored(nd) THEN [nd |-> nd, exc |-> "ModificationNotAllowed"]
    ELSE [nd |-> [nd EXCEPT !.temp_folder = <<GetTempFolder(nd)[1] \cup {f}>>],
          exc |-> "none"]

\* remove_path without the test of is_stored: the path is removed from
\* self.folder, the repository folder of a stored node.
RemovePathNodeUnguarded(nd, f) ==
    IF IsStored(nd)
    THEN [nd |-> [nd EXCEPT !.repo_folder = <<nd.repo_folder[1] \ {f}>>], exc |-> "none"]
    ELSE [nd |-> [nd EXCEPT !.temp_folder = <<GetTempFolder(nd)[1] \ {f}>>],
          exc |-> "none"]

\* AbstractNode.remove_path
RemovePathNode(nd, f) ==
    IF IsStored(nd) THEN [nd |-> nd, exc |-> "ModificationNotAllowed"]
    ELSE [nd |-> [nd EXCEPT !.temp_folder = <<GetTempFolder(nd)[1] \ {f}>>],
          exc |-> "none"]

\* Which link types may join which classes.
ValidLink(scls, tcls, type) ==
    \/ type = "INPUT" /\ scls = "Data" /\ tcls \in {"Calc", "Process"}
    \/ type \in {"CREATE", "RETURN"} /\ scls = "Calc" /\ tcls = "Data"
    \/ type = "CALL" /\ scls = "Calc" /\ tcls = "Calc"

LabelInUse(w, t, label) ==
    \/ \E l \in IncomingLinks(w, t) : l.label = label
    \/ \E i \in 1 .. Len(w.nodes[t].incoming_cache) :
          w.nodes[t].incoming_cache[i].link_label = label

\* What add_incoming checks before it writes anything.
ValidateIncoming(w, t, s, type, label) ==
    IF ~ValidLink(w.nodes[s].cls, w.nodes[t].cls, type) THEN "ValueError"
    ELSE IF LabelInUse(w, t, label) THEN "UniquenessError"
    ELSE IF IsStored(w.nodes[t]) /\ ~IsStored(w.nodes[s]) THEN "ModificationNotAllowed"
    ELSE "none"

\* The uniqueness constraint of the link table on (target, label).
ConstraintViolated(w, link) ==
    \E l \in w.links : l.tgt = link.tgt /\ l.label = link.label

\* AddDbLinkFrom on a table without the constraint: every insert succeeds.
AddDbLinkFromUnconstrained(w, link) == Ok([w EXCEPT !.links = @ \cup {link}])

\* _add_dblink_from(src, link_type, label): the insert of one link row; a
\* violation of the constraint is raised as the label-collision error.
AddDbLinkFrom(w, link) ==
    IF ConstraintViolated(w, link) THEN Raise(w, "UniquenessError")
    ELSE Ok([w EXCEPT !.links = @ \cup {link}])

\* add_incoming(source, link_type, link_label) on target t
AddIncomingNode(w, t, s, type, label) ==
    IF ~ValidLink(w.nodes[s].cls, w.nodes[t].cls, type) THEN Raise(w, "ValueError")
    ELSE IF LabelInUse(w, t, label) THEN Raise(w, "UniquenessError")
    ELSE IF ~IsStored(w.nodes[t])
    THEN Ok([w EXCEPT !.nodes[t].incoming_cache =
                Append(@, [node |-> s, link_type |-> type, link_label |-> label])])
    ELSE IF ~IsStored(w.nodes[s]) THEN Raise(w, "ModificationNotAllowed")
    ELSE Ok([w EXCEPT !.links = @ \cup
                {[src |-> s, tgt |-> t, type |-> type, label |-> label]}])

\* --------------------------------------------------------------- inputs
Configs ==
    {[default |-> TRUE, enabled |-> {}, disabled |-> {"Data"}],
     [default |-> FALSE, enabled |-> {"Data"}, disabled |-> {}],
     [default |-> FALSE, enabled |-> {}, disabled |-> {}]}

StoredClasses == {"Data", "Calc"}

\* The classes that are not storable: Node and ProcessNode themselves.
BareClasses == {"Node", "Process"}

AttrInputs ==
    {[key |-> "x", value |-> "1", clean |-> TRUE],
     [key |-> "x", value |-> NaN, clean |-> TRUE],
     [key |-> "x", value |-> Unhashable, clean |-> TRUE],
     [key |-> PROCESS_STATE_KEY, value |-> "finished", clean |-> TRUE]}

LinkTypes == {"INPUT", "CREATE", "RETURN"}

\* Link labels are interchangeable names: the k-th link a user makes takes
\* one of the first k of them.
LabelSeq == <<"a", "b", "c">>

Labels(k) == {LabelSeq[i] : i \in 1 .. (IF k < Len(LabelSeq) THEN k ELSE Len(LabelSeq))}

UseCacheArgs == {"default", "true", "false"}

\* The rows the query of n may yield first; one value when it has no choice.
Picks(w, n) ==
    With(IterAllSameNodes(w, n),
         LAMBDA same : IF Cardinality(same) > 1 THEN same ELSE {1})

\* -------------------------------------------------------------- process
\* The states a process node records under PROCESS_STATE_KEY.
CREATED == "created"

RUNNING == "running"

WAITING == "waiting"

FINISHED == "finished"

EXCEPTED == "excepted"     \* ProcessState.FAILED of work.py

KILLED == "killed"         \* ProcessState.CANCELLED of work.py

ProcessStates == {CREATED, RUNNING, WAITING, FINISHED, EXCEPTED, KILLED}

TerminalStates == {FINISHED, EXCEPTED, KILLED}

ProcessState(nd) == GetAttrs(nd)[PROCESS_STATE_KEY]

\* WorkCalculation.has_finished_ok / has_failed / has_aborted / has_finished
HasFinishedOk(nd) == ProcessState(nd) = FINISHED

HasFailed(nd) == ProcessState(nd) = EXCEPTED

HasAborted(nd) == ProcessState(nd) = KILLED

\* has_finished that forgets the aborted processes.
HasFinishedNotAborted(nd) == HasFinishedOk(nd) \/ HasFailed(nd)

HasFinished(nd) == HasFinishedOk(nd) \/ HasFailed(nd) \/ HasAborted(nd)

\* ProcessNode.is_finished / is_excepted / is_killed / is_terminated
IsFinished(nd) == ProcessState(nd) = FINISHED

IsExcepted(nd) == ProcessState(nd) = EXCEPTED

IsKilled(nd) == ProcessState(nd) = KILLED

IsTerminated(nd) == ProcessState(nd) \in TerminalStates

ExitStatus(nd) == GetAttrs(nd)[EXIT_STATUS_KEY]

\* ProcessNode.is_finished_ok: finished with a zero exit status
IsFinishedOk(nd) == IsFinished(nd) /\ ExitStatus(nd) = "0"

\* is_failed as has_failed of the work calculation: the process excepted.
IsFailedWhenExcepted(nd) == IsExcepted(nd)

\* ProcessNode.is_failed: finished with a non-zero exit status
IsFailed(nd) == IsFinished(nd) /\ ExitStatus(nd) # "0"

\* format_process_state
FormatProcessState(process_state) ==
    CASE process_state = CREATED -> "Created"
      [] process_state = RUNNING -> "Running"
      [] process_state = WAITING -> "Waiting"
      [] process_state = FINISHED -> "Finished"
      [] process_state = EXCEPTED -> "Excepted"
      [] process_state = KILLED -> "Killed"
      [] OTHER -> "None"

\* format_state: the symbol and the text of a process state
FormatState(process_state, paused, exit_status) ==
    LET symbol == IF process_state \in {EXCEPTED, KILLED} THEN "U+2A2F"
                  ELSE IF process_state \in {CREATED, FINISHED} THEN "U+23F9"
                  ELSE IF process_state \in {RUNNING, WAITING}
                  THEN IF paused = "True" THEN "U+23F8" ELSE "U+23F5"
                  ELSE "U+00A0"
    IN  IF process_state = FINISHED /\ exit_status # None
        THEN symbol \o " " \o FormatProcessState(process_state) \o " [" \o exit_status \o "]"
        ELSE symbol \o " " \o FormatProcessState(process_state)

\* EngineNext where a created process may suspend at once.
EngineNextWaitsFirst(from, to) ==
    \/ from = CREATED /\ to \in {RUNNING, WAITING}
    \/ from = RUNNING /\ to \in {WAITING, FINISHED}
    \/ from = WAITING /\ to = RUNNING
    \/ from \in {CREATED, RUNNING, WAITING} /\ to \in {EXCEPTED, KILLED}

\* The transitions the process engine makes.
EngineNext(from, to) ==
    \/ from = CREATED /\ to = RUNNING
    \/ from = RUNNING /\ to \in {WAITING, FINISHED}
    \/ from = WAITING /\ to = RUNNING
    \/ from \in {CREATED, RUNNING, WAITING} /\ to \in {EXCEPTED, KILLED}

\* Sealable.seal: only a terminated process is sealed, and only once.
SealNode(nd) ==
    IF IsSealed(nd) THEN [nd |-> nd, exc |-> "ModificationNotAllowed"]
    ELSE IF ~IsTerminated(nd) THEN [nd |-> nd, exc |-> "InvalidOperation"]
    ELSE SetAttrNode(nd, SEALED_KEY, "True", TRUE)

\* What the engine writes on entering a state: the state, with the exit
\* status of a finished process and the checkpoint of a waiting one.
EnterState(nd, to, status) ==
    LET a == IF to = FINISHED THEN SetAttrNode(nd, EXIT_STATUS_KEY, status, TRUE)
             ELSE IF to = WAITING THEN SetAttrNode(nd, CHECKPOINT_KEY, "bundle", TRUE)
             ELSE [nd |-> nd, exc |-> "none"]
    IN  IF a.exc # "none" THEN a ELSE SetAttrNode(a.nd, PROCESS_STATE_KEY, to, TRUE)

\* ----------------------------------------------------------------- kill
KillRequest == "killed by user"

\* _set_attr(DO_ABORT_KEY, 'killed by user') on node n
RecordKill(w, n) ==
    With(SetAttrNode(w.nodes[n], DO_ABORT_KEY, KillRequest, TRUE),
         LAMBDA a : [Ok([w EXCEPT !.nodes[n] = a.nd]) EXCEPT !.exc = a.exc])

\* KillSelf that also marks the process as killed.
KillSelfAndState(w, n) ==
    IF IsSealed(w.nodes[n]) THEN Ok(w)
    ELSE With(RecordKill(w, n),
              LAMBDA a : IF a.exc # "none" THEN a
                         ELSE Ok([a.w EXCEPT !.nodes[n].attributes[PROCESS_STATE_KEY] = KILLED]))

\* WorkCalculation.kill, lines 72-73
KillSelf(w, n) == IF IsSealed(w.nodes[n]) THEN Ok(w) ELSE RecordKill(w, n)

\* get_outputs(link_type=LinkType.CALL)
Called(w, n) == {l.tgt : l \in OutgoingLinks(w, n, "CALL")}

\* JobCalculation.kill: a terminated job cannot be killed.
JobKill(w, n) ==
    IF IsTerminated(w.nodes[n]) THEN Raise(w, "InvalidOperation") ELSE RecordKill(w, n)

\* kill of a calculation of another class: it may refuse for a reason of its
\* own, whatever its state.
OtherKill(w, n, refusing) ==
    IF n \in refusing THEN Raise(w, "InvalidOperation") ELSE KillSelf(w, n)

RECURSIVE KillNode(_, _, _)

RECURSIVE KillChildren(_, _, _)

\* child.kill(), by the class of the child
KillChild(w, c, refusing) ==
    IF w.nodes[c].cls = "Work" THEN KillNode(w, c, refusing)
    ELSE IF w.nodes[c].cls = "Job" THEN JobKill(w, c)
    ELSE OtherKill(w, c, refusing)

FirstOf(todo) == CHOOSE c \in todo : \A d \in todo : c <= d

\* KillChildren where a skipped child ends the loop.
KillChildrenUntilSkipped(w, todo, refusing) ==
    IF todo = {} THEN Ok(w)
    ELSE With(KillChild(w, FirstOf(todo), refusing),
              LAMBDA r :
                  IF r.exc = "InvalidOperation"
                  THEN IF w.nodes[FirstOf(todo)].cls = "Job" THEN Ok(r.w) ELSE r
                  ELSE IF r.exc # "none" THEN r
                  ELSE KillChildren(r.w, todo \ {FirstOf(todo)}, refusing))

\* KillChildren that visits the remaining children before it raises again.
KillChildrenPastRefusal(w, todo, refusing) ==
    IF todo = {} THEN Ok(w)
    ELSE With(KillChild(w, FirstOf(todo), refusing),
              LAMBDA r :
                  IF r.exc = "InvalidOperation"
                  THEN IF w.nodes[FirstOf(todo)].cls = "Job"
                       THEN KillChildren(r.w, todo \ {FirstOf(todo)}, refusing)
                       ELSE [KillChildren(r.w, todo \ {FirstOf(todo)}, refusing)
                                EXCEPT !.exc = "InvalidOperation"]
                  ELSE IF r.exc # "none" THEN r
                  ELSE KillChildren(r.w, todo \ {FirstOf(todo)}, refusing))

\* WorkCalculation.kill, lines 75-83: the loop over the called calculations
KillChildren(w, todo, refusing) ==
    IF todo = {} THEN Ok(w)
    ELSE With(KillChild(w, FirstOf(todo), refusing),
              LAMBDA r :
                  IF r.exc = "InvalidOperation"
                  THEN IF w.nodes[FirstOf(todo)].cls = "Job"
                       THEN KillChildren(r.w, todo \ {FirstOf(todo)}, refusing)
                       ELSE r
                  ELSE IF r.exc # "none" THEN r
                  ELSE KillChildren(r.w, todo \ {FirstOf(todo)}, refusing))

\* WorkCalculation.kill
KillNode(w, n, refusing) ==
    With(KillSelf(w, n),
         LAMBDA a : IF a.exc # "none" THEN a
                    ELSE KillChildren(a.w, Called(a.w, n), refusing))

\* ----------------------------------------------------------------- lock
\* Calculation.lock() of the Django backend.  Every worker holds its own
\* handle (its own _dbnode instance) of one calculation.
Workers == 1 .. MaxWorkers

NewHandle == [public |-> FALSE, depth |-> 0, failing |-> FALSE, exc |-> "none"]

\* No store() is under way and the session is empty.
IdlePc == [at |-> "idle", with_transaction |-> TRUE, raised |-> "none", left |-> "none",
           files |-> NoFolder]

NoSession == [new |-> {}, links |-> {}]

Procs == 1 .. MaxProcs

\* No add_incoming call is under way.
IdleAdder == [at |-> "idle", link |-> None, exc |-> "none", by |-> "none"]

\* A process instance as the engine constructs it.
NewInstance == [state |-> "created", step |-> 0]

NoBundle == None

\* A live instance between two transitions, no suspension entered, no bundle
\* taken of it.
NewProcess == [alive |-> TRUE, inst |-> NewInstance, todo |-> <<>>, entered |-> 0,
               held |-> NoBundle, then |-> NewInstance]

StepInit ==
    /\ pc = [n \in Nodes |-> IdlePc]
    /\ session = NoSession
    /\ adders = [w \in Workers |-> IdleAdder]
    /\ engine = [p \in Procs |-> NewProcess]
    /\ scopes = <<>>

LockInit ==
    /\ dbnode = [stored |-> TRUE, public |-> FALSE]
    /\ handles = [w \in Workers |-> NewHandle]
    /\ hooks = {}
    /\ StepInit

\* Calculation.is_locked
IsLocked(h) == h.public

\* Calculation.force_unlock: the flag of the handle is reset and, for a
\* stored node, saved to the row
ForceUnlockRow(row) == IF row.stored THEN [row EXCEPT !.public = FALSE] ELSE row

\* add_shutdown_callback / remove_shutdown_callback of the daemon runner
AddShutdownCallback(hs, w) == hs \cup {w}

RemoveShutdownCallback(hs, w) == hs \ {w}

\* The scopes that are active: lock() has yielded and has not been left.
Holders == {w \in Workers : handles[w].depth > 0}

\* lock() up to its yield, or up to the exception of update_or_create
LockEnter(w) ==
    /\ handles[w].depth < MaxDepth
    /\ ~handles[w].failing
    /\ IF ~dbnode.stored
       THEN IF handles[w].public
            THEN \* raised before the try: nothing is cleaned up
                 /\ handles' = [handles EXCEPT ![w].exc = "LockError"]
                 /\ UNCHANGED <<dbnode, hooks>>
            ELSE /\ hooks' = AddShutdownCallback(hooks, w)
                 /\ handles' = [handles EXCEPT ![w].public = TRUE,
                                               ![w].depth = @ + 1,
                                               ![w].exc = "none"]
                 /\ UNCHANGED dbnode
       ELSE IF ~dbnode.public
            THEN \* update_or_create finds the row with public=False
                 /\ dbnode' = [dbnode EXCEPT !.public = TRUE]
                 /\ hooks' = AddShutdownCallback(hooks, w)
                 /\ handles' = [handles EXCEPT ![w].public = TRUE,
                                               ![w].depth = @ + 1,
                                               ![w].exc = "none"]
            ELSE \* it finds none, inserts the pk again: IntegrityError
                 /\ handles' = [handles EXCEPT ![w].failing = TRUE]
                 /\ UNCHANGED <<dbnode, hooks>>
    /\ UNCHANGED offLockVars

\* the finally block of the attempt that met the IntegrityError, then the
\* LockError that replaces it
LockFailed(w) ==
    /\ handles[w].failing
    /\ hooks' = RemoveShutdownCallback(hooks, w)
    /\ dbnode' = ForceUnlockRow(dbnode)
    /\ handles' = [handles EXCEPT ![w].public = FALSE,
                                  ![w].failing = FALSE,
                                  ![w].exc = "LockError"]
    /\ UNCHANGED offLockVars

\* the body of the with statement ends, by returning or by raising
LockExit(w) ==
    /\ handles[w].depth > 0
    /\ ~handles[w].failing
    /\ \E how \in {"none", "BodyError"} :
           handles' = [handles EXCEPT ![w].public = FALSE,
                                     ![w].depth = @ - 1,
                                     ![w].exc = how]
    /\ hooks' = RemoveShutdownCallback(hooks, w)
    /\ dbnode' = ForceUnlockRow(dbnode)
    /\ UNCHANGED offLockVars

LockNodeInit ==
    /\ nodes = [n \in Nodes |-> BlankNode]
    /\ rows = {}
    /\ links = {}
    /\ caching = [default |-> TRUE, enabled |-> {}, disabled |-> {}]
    /\ edits = 0
    /\ nlinks = 0

InitLock ==
    /\ LockNodeInit
    /\ dbnode \in {[stored |-> TRUE, public |-> FALSE], [stored |-> FALSE, public |-> FALSE]}
    /\ handles = [w \in Workers |-> NewHandle]
    /\ hooks = {}
    /\ StepInit

Enter == \E w \in Workers : LockEnter(w)

Failed == \E w \in Workers : LockFailed(w)

Exit == \E w \in Workers : LockExit(w)

NextLock == Enter \/ Failed \/ Exit

SpecLock == InitLock /\ [][NextLock]_vars

\* ------------------------------------------------- process node actions
ExitStatuses == {"0", "1"}

\* the direct writes to the updatable attributes of a process node
ProcWrites ==
    {[key |-> PROCESS_STATE_KEY, value |-> v] : v \in ProcessStates}
    \cup {[key |-> EXIT_STATUS_KEY, value |-> v] : v \in ExitStatuses}
    \cup {[key |-> CHECKPOINT_KEY, value |-> "bundle"], [key |-> "x", value |-> "1"]}

\* A process node as the engine has created and stored it.
NewProcNode(n) ==
    LET nd == [BlankNode EXCEPT !.cls = "Calc", !.uuid = UuidOf(n), !.pk = PkOf(n),
                                !.to_be_stored = FALSE, !.cache_deleted = TRUE,
                                !.attributes = [NoAttrs EXCEPT ![PROCESS_STATE_KEY] = CREATED],
                                !.repo_folder = <<{}>>]
    IN  [nd EXCEPT !.extras._aiida_hash = GetHash(nd)]

InitProc ==
    /\ nodes = [n \in Nodes |-> IF n \in Procs THEN NewProcNode(n) ELSE BlankNode]
    /\ rows = Procs
    /\ links = {}
    /\ caching = [default |-> TRUE, enabled |-> {}, disabled |-> {}]
    /\ edits = 0
    /\ nlinks = 0
    /\ LockInit

\* the engine moves the process on
TransitionOf(n) ==
    \E to \in ProcessStates, status \in ExitStatuses :
        /\ EngineNext(ProcessState(nodes[n]), to)
        /\ nodes' = [nodes EXCEPT ![n] = EnterState(nodes[n], to, status).nd]
        /\ UNCHANGED <<rows, links, caching, edits, nlinks>>
        /\ UNCHANGED sideVars

Transition == \E n \in Procs : TransitionOf(n)

\* node._set_attr(key, value) on a process node
WriteOf(n) ==
    \E in \in ProcWrites :
        /\ nodes' = [nodes EXCEPT ![n] = SetAttrNode(nodes[n], in.key, in.value, TRUE).nd]
        /\ UNCHANGED <<rows, links, caching, edits, nlinks>>
        /\ UNCHANGED sideVars

Write == \E n \in Procs : WriteOf(n)

\* node.seal()
SealOf(n) ==
    /\ nodes' = [nodes EXCEPT ![n] = SealNode(nodes[n]).nd]
    /\ UNCHANGED <<rows, links, caching, edits, nlinks>>
    /\ UNCHANGED sideVars

Seal == \E n \in Procs : SealOf(n)

NextProc == Transition \/ Write \/ Seal

SpecProc == InitProc /\ [][NextProc]_vars

\* ------------------------------------------------------------- extras
\* The process nodes whose extras are written while the engine runs them.
Tagged == {n \in Procs : n = 1}

ExtraWrites == {[key |-> "tag", value |-> "t"], [key |-> "tag", value |-> None]}

\* node.set_extra(key, value) on a stored node
SetExtra ==
    \E n \in Tagged, in \in ExtraWrites, exclusive \in BOOLEAN :
        /\ IsStored(nodes[n])
        /\ nodes' = [nodes EXCEPT ![n] = SetDbExtra(nodes[n], in.key, in.value, exclusive).nd]
        /\ UNCHANGED <<rows, links, caching, edits, nlinks>>
        /\ UNCHANGED sideVars

\* node.rehash()
RehashNode ==
    \E n \in Tagged :
        /\ IsStored(nodes[n])
        /\ nodes' = [nodes EXCEPT ![n] = Rehash(nodes[n]).nd]
        /\ UNCHANGED <<rows, links, caching, edits, nlinks>>
        /\ UNCHANGED sideVars

\* node.clear_hash()
ClearHashNode ==
    \E n \in Tagged :
        /\ IsStored(nodes[n])
        /\ nodes' = [nodes EXCEPT ![n] = ClearHash(nodes[n]).nd]
        /\ UNCHANGED <<rows, links, caching, edits, nlinks>>
        /\ UNCHANGED sideVars

TaggedTransition == \E n \in Tagged : TransitionOf(n)

TaggedWrite == \E n \in Tagged : WriteOf(n)

TaggedSeal == \E n \in Tagged : SealOf(n)

NextExtras ==
    \/ TaggedTransition
    \/ TaggedWrite
    \/ TaggedSeal
    \/ SetExtra
    \/ RehashNode
    \/ ClearHashNode

SpecExtras == InitProc /\ [][NextExtras]_vars

\* -------------------------------------------------------------- actions
Init ==
    /\ nodes = [n \in Nodes |-> BlankNode]
    /\ rows = {}
    /\ links = {}
    /\ caching \in Configs
    /\ edits = 0
    /\ nlinks = 0
    /\ LockInit

SetWorld(w) ==
    /\ nodes' = w.nodes
    /\ rows' = w.rows
    /\ links' = w.links
    /\ caching' = w.caching

\* cls(): a new unstored instance
Create ==
    \E cls \in StoredClasses :
        /\ FreeSlots(World) # {}
        /\ nodes' = [nodes EXCEPT ![NewId(World)] =
               [BlankNode EXCEPT !.cls = cls, !.uuid = UuidOf(NewId(World))]]
        /\ UNCHANGED <<rows, links, caching, edits, nlinks>>
        /\ UNCHANGED sideVars

\* node._set_attr(key, value, clean)
SetAttr ==
    \E n \in Nodes, in \in AttrInputs :
        /\ Created(nodes[n])
        /\ \E r \in {SetAttrNode(nodes[n], in.key, in.value, in.clean)} :
               /\ r.exc = "none" => edits < MaxEdits
               /\ nodes' = [nodes EXCEPT ![n] = r.nd]
               /\ edits' = IF r.exc = "none" THEN edits + 1 ELSE edits
        /\ UNCHANGED <<rows, links, caching, nlinks>>
        /\ UNCHANGED sideVars

\* node.label = "l"
SetLabel ==
    \E n \in Nodes :
        /\ Created(nodes[n])
        /\ edits < MaxEdits
        /\ nodes' = [nodes EXCEPT ![n].label = "l"]
        /\ edits' = edits + 1
        /\ UNCHANGED <<rows, links, caching, nlinks>>
        /\ UNCHANGED sideVars

\* node.add_path(src_abs, dst_path)
AddPath ==
    \E n \in Nodes, f \in Files :
        /\ Created(nodes[n])
        /\ \E r \in {AddPathNode(nodes[n], f)} :
               /\ r.exc = "none" => edits < MaxEdits
               /\ nodes' = [nodes EXCEPT ![n] = r.nd]
               /\ edits' = IF r.exc = "none" THEN edits + 1 ELSE edits
        /\ UNCHANGED <<rows, links, caching, nlinks>>
        /\ UNCHANGED sideVars

\* target.add_incoming(source, link_type, link_label), while fewer than max
\* links were made
AddIncomingUpTo(max) ==
    \E t \in Nodes, s \in Nodes, type \in LinkTypes, label \in Labels(nlinks + 1) :
        /\ Created(nodes[t]) /\ Created(nodes[s]) /\ s # t
        /\ \E r \in {AddIncomingNode(World, t, s, type, label)} :
               /\ r.exc = "none" => nlinks < max
               /\ SetWorld(r.w)
               /\ nlinks' = IF r.exc = "none" THEN nlinks + 1 ELSE nlinks
        /\ UNCHANGED edits
        /\ UNCHANGED sideVars

AddIncoming == AddIncomingUpTo(MaxLinks)

\* node.store(use_cache=...)
Store ==
    \E n \in Nodes, use_cache \in UseCacheArgs, pick \in Nodes :
        /\ Created(nodes[n])
        /\ pick \in Picks(World, n)
        /\ \E r \in {StoreNode(World, n, use_cache, "none", pick)} :
               /\ r.exc # "OutOfBound"
               /\ SetWorld(r.w)
        /\ UNCHANGED <<edits, nlinks>>
        /\ UNCHANGED sideVars

\* node.store_all(use_cache=...)
StoreAll ==
    \E n \in Nodes, use_cache \in UseCacheArgs, pick \in Nodes :
        /\ Created(nodes[n])
        /\ pick \in Picks(World, n)
        /\ \E r \in {StoreAllNode(World, n, use_cache, pick)} :
               /\ r.exc # "OutOfBound"
               /\ SetWorld(r.w)
        /\ UNCHANGED <<edits, nlinks>>
        /\ UNCHANGED sideVars

Next == Create \/ SetAttr \/ SetLabel \/ AddPath \/ AddIncoming \/ Store \/ StoreAll

Spec == Init /\ [][Next]_vars

\* ------------------------------------------------------ unstorable nodes
\* An instance of Node or of ProcessNode itself next to a Data node that can
\* be its parent, both just constructed.
InitBare ==
    /\ \E cls \in BareClasses, p \in Nodes :
          /\ \A m \in Nodes : p <= m
          /\ nodes = [n \in Nodes |->
                      IF n = p + 1
                      THEN [BlankNode EXCEPT !.cls = cls, !.uuid = UuidOf(n)]
                      ELSE IF n = p
                      THEN [BlankNode EXCEPT !.cls = "Data", !.uuid = UuidOf(n)]
                      ELSE BlankNode]
    /\ rows = {}
    /\ links = {}
    /\ caching \in Configs
    /\ edits = 0
    /\ nlinks = 0
    /\ LockInit

NextBare == SetAttr \/ SetLabel \/ AddPath \/ AddIncoming \/ Store

SpecBare == InitBare /\ [][NextBare]_vars

\* ------------------------------------------------- chains of cached links
\* Nodes without content, joined by up to MaxChain links, stored one by one
\* or with store_all().
AddIncomingChain == AddIncomingUpTo(MaxChain)

NextLinks == Create \/ AddIncomingChain \/ Store \/ StoreAll

SpecLinks == Init /\ [][NextLinks]_vars

\* ------------------------------------------- store(), one step at a time
\* store(with_transaction, use_cache=False) of one node, followed through
\* the statements of Node._db_store, each of which may raise.  rows and links
\* hold what is committed; session holds what was added to the scoped session
\* and is neither committed nor rolled back.
StepFaults == {"none", "SQLAlchemyError"}

LinkFaults == {"none", "UniquenessError"}

NoStoreUnderWay == \A m \in Nodes : pc[m].at = "idle"

\* The nodes on which store() was called.
StoreCalled == {m \in Nodes : IsStored(nodes[m]) \/ pc[m].left # "none"}

\* store, lines 543-552, and _db_store, line 289
DbStoreMove(n) ==
    /\ NoStoreUnderWay
    /\ Cardinality(StoreCalled \cup {n}) <= MaxStores
    /\ Created(nodes[n]) /\ nodes[n].to_be_stored
    /\ Storable(nodes[n].cls) /\ Validate(nodes[n])
    /\ CheckAreParentsStored(World, n)
    /\ \E wt \in BOOLEAN :
           pc' = [pc EXCEPT ![n] = [at |-> "moved", with_transaction |-> wt,
                                    raised |-> "none", left |-> "none",
                                    files |-> GetTempFolder(nodes[n])]]
    /\ nodes' = [nodes EXCEPT ![n] = MoveToRepository(nodes[n])]
    /\ UNCHANGED <<rows, links, caching, edits, nlinks, session>>
    /\ UNCHANGED <<lockVars, callVars>>

\* _db_store, lines 292-302
DbStoreAdd(n) ==
    /\ pc[n].at = "moved"
    /\ \E fault \in StepFaults :
           IF fault = "none"
           THEN /\ nodes' = [nodes EXCEPT ![n] = AddToSession(nodes[n])]
                /\ session' = [session EXCEPT !.new = @ \cup {n}]
                /\ pc' = [pc EXCEPT ![n].at = "added"]
           ELSE /\ pc' = [pc EXCEPT ![n].at = "except", ![n].raised = fault]
                /\ UNCHANGED <<nodes, session>>
    /\ UNCHANGED <<rows, links, caching, edits, nlinks>>
    /\ UNCHANGED <<lockVars, callVars>>

\* _db_store, line 306: the cached links go to the session; writing a link
\* may fail, with no link to write nothing can
DbStoreLinks(n) ==
    /\ pc[n].at = "added"
    /\ \E fault \in (IF nodes[n].incoming_cache = <<>> THEN {"none"} ELSE LinkFaults) :
         \E r \in {StoreCachedInputLinks(
                       [World EXCEPT !.links = links \cup session.links], n)} :
           IF fault = "none" /\ r.exc = "none"
           THEN /\ nodes' = r.w.nodes
                /\ session' = [session EXCEPT !.links = r.w.links \ links]
                /\ pc' = [pc EXCEPT ![n].at = "linked"]
           ELSE /\ pc' = [pc EXCEPT ![n].at = "except",
                                    ![n].raised = IF r.exc # "none" THEN r.exc ELSE fault]
                /\ UNCHANGED <<nodes, session>>
    /\ UNCHANGED <<rows, links, caching, edits, nlinks>>
    /\ UNCHANGED <<lockVars, callVars>>

\* session.commit(): everything the session holds is written
CommitSession ==
    /\ rows' = rows \cup session.new
    /\ links' = links \cup session.links
    /\ session' = NoSession

\* _db_store, lines 308-316
DbStoreCommit(n) ==
    /\ pc[n].at = "linked"
    /\ IF ~pc[n].with_transaction
       THEN /\ pc' = [pc EXCEPT ![n].at = "committed"]
            /\ UNCHANGED <<rows, links, session>>
       ELSE \E fault \in StepFaults :
               IF fault = "none"
               THEN /\ CommitSession
                    /\ pc' = [pc EXCEPT ![n].at = "committed"]
               ELSE \* session.rollback(), then raise
                    /\ session' = NoSession
                    /\ pc' = [pc EXCEPT ![n].at = "except", ![n].raised = fault]
                    /\ UNCHANGED <<rows, links>>
    /\ nodes' = [nodes EXCEPT ![n].pk = IF pc'[n].at = "committed" THEN PkOf(n) ELSE @]
    /\ UNCHANGED <<caching, edits, nlinks>>
    /\ UNCHANGED <<lockVars, callVars>>

\* _db_store, lines 326-327: the hash is written and store() returns
DbStoreHash(n) ==
    /\ pc[n].at = "committed"
    /\ nodes' = [nodes EXCEPT ![n] = SetHashExtra(nodes[n])]
    /\ pc' = [pc EXCEPT ![n] = IdlePc]
    /\ UNCHANGED <<rows, links, caching, edits, nlinks, session>>
    /\ UNCHANGED <<lockVars, callVars>>

\* _db_store, lines 320-324: the bare except, then the exception leaves store()
DbStoreExcept(n) ==
    /\ pc[n].at = "except"
    /\ nodes' = [nodes EXCEPT ![n] = MoveToSandbox(nodes[n])]
    /\ pc' = [pc EXCEPT ![n] = [IdlePc EXCEPT !.left = pc[n].raised]]
    /\ UNCHANGED <<rows, links, caching, edits, nlinks, session>>
    /\ UNCHANGED <<lockVars, callVars>>

\* The commit of the transaction that encloses store(with_transaction=False),
\* as at the end of _db_store_all, lines 204-209
SessionCommit ==
    /\ NoStoreUnderWay
    /\ session # NoSession
    /\ CommitSession
    /\ nodes' = [m \in Nodes |->
           IF m \in session.new THEN [nodes[m] EXCEPT !.pk = PkOf(m)] ELSE nodes[m]]
    /\ UNCHANGED <<caching, edits, nlinks, pc>>
    /\ UNCHANGED <<lockVars, callVars>>

StoreStep ==
    \E n \in Nodes :
        \/ DbStoreMove(n)
        \/ DbStoreAdd(n)
        \/ DbStoreLinks(n)
        \/ DbStoreCommit(n)
        \/ DbStoreHash(n)
        \/ DbStoreExcept(n)

\* The first k cached links of n, as rows of the link table.
CachedLinksUpTo(w, n, k) ==
    {[src |-> w.nodes[n].incoming_cache[i].node, tgt |-> n,
      type |-> w.nodes[n].incoming_cache[i].link_type,
      label |-> w.nodes[n].incoming_cache[i].link_label] : i \in 1 .. k}

\* Node._store_cached_input_links(with_transaction) as called on node n while
\* the scoped session holds ses.  failing is the position in the cache of the
\* link whose _add_dblink_from raises (0 when none does), commit the fault of
\* session.commit().  The links written before the one that fails stay in the
\* session; the cache is emptied after the loop and before the commit, and a
\* failed commit is answered with session.rollback().
StoreCachedInputLinksCall(w, ses, n, with_transaction, failing, commit) ==
    IF ~IsStored(w.nodes[n]) \/ ~CheckAreParentsStored(w, n)
    THEN [w |-> w, session |-> ses, exc |-> "ModificationNotAllowed"]
    ELSE IF failing > 0
    THEN [w |-> w, exc |-> "UniquenessError",
          session |-> [ses EXCEPT !.links = @ \cup CachedLinksUpTo(w, n, failing - 1)]]
    ELSE With([ses EXCEPT !.links = @ \cup CachedLinkSet(w, n)],
              LAMBDA added :
                 IF ~with_transaction
                 THEN [w |-> [w EXCEPT !.nodes[n].incoming_cache = <<>>],
                       session |-> added, exc |-> "none"]
                 ELSE IF commit # "none"
                 THEN [w |-> [w EXCEPT !.nodes[n].incoming_cache = <<>>],
                       session |-> NoSession, exc |-> commit]
                 ELSE [w |-> [w EXCEPT
                                 !.nodes = [m \in DOMAIN w.nodes |->
                                     IF m = n THEN [w.nodes[m] EXCEPT !.incoming_cache = <<>>]
                                     ELSE IF m \in added.new
                                     THEN [w.nodes[m] EXCEPT !.pk = PkOf(m)]
                                     ELSE w.nodes[m]],
                                 !.rows = @ \cup added.new,
                                 !.links = @ \cup added.links],
                       session |-> NoSession, exc |-> "none"])

\* The calls of _store_cached_input_links there are on node n.
FlushCalls(n) ==
    [with_transaction : BOOLEAN, failing : 0 .. Len(nodes[n].incoming_cache),
     commit : StepFaults]

\* node._store_cached_input_links(with_transaction), called on its own
FlushLinks ==
    \E n \in Nodes :
        /\ NoStoreUnderWay
        /\ Created(nodes[n])
        /\ \E call \in FlushCalls(n) :
             \E r \in {StoreCachedInputLinksCall(World, session, n, call.with_transaction,
                                                 call.failing, call.commit)} :
                /\ SetWorld(r.w)
                /\ session' = r.session
        /\ UNCHANGED <<edits, nlinks, pc>>
        /\ UNCHANGED <<lockVars, callVars>>

\* One thread: nothing else is called while store() runs.
BetweenStores == NoStoreUnderWay /\ (Create \/ AddPath \/ AddIncoming)

NextStore == BetweenStores \/ StoreStep \/ SessionCommit \/ FlushLinks

SpecStore == Init /\ [][NextStore]_vars

\* --------------------------------- add_incoming by concurrent workers
\* Every worker calls add_incoming once on a stored target: it validates the
\* link against the rows it reads, then inserts it; other workers run between
\* the two.
StoredNode(n, cls) ==
    LET nd == [BlankNode EXCEPT !.cls = cls, !.uuid = UuidOf(n), !.pk = PkOf(n),
                                !.to_be_stored = FALSE, !.cache_deleted = TRUE,
                                !.repo_folder = <<{}>>]
    IN  [nd EXCEPT !.extras._aiida_hash = GetHash(nd)]

\* The stored graph the workers start from: a calculation and data nodes.
AddClasses == [n \in Nodes |-> IF n = 1 THEN "Calc" ELSE "Data"]

AddTypes == {"INPUT", "CREATE"}

AddLabels == {"a", "b"}

Adders == {w \in Workers : w <= MaxAdders}

InitAdd ==
    /\ nodes = [n \in Nodes |-> StoredNode(n, AddClasses[n])]
    /\ rows = Nodes
    /\ links = {}
    /\ caching = [default |-> FALSE, enabled |-> {}, disabled |-> {}]
    /\ edits = 0
    /\ nlinks = 0
    /\ LockInit

\* add_incoming up to the insert
AddValidate(w) ==
    /\ adders[w].at = "idle"
    /\ \E t \in rows, s \in rows, type \in AddTypes, label \in AddLabels :
         /\ s # t
         /\ \E link \in {[src |-> s, tgt |-> t, type |-> type, label |-> label]} :
            \E exc \in {ValidateIncoming(World, t, s, type, label)} :
              adders' = [adders EXCEPT ![w] =
                  [at |-> IF exc = "none" THEN "validated" ELSE "done",
                   link |-> link, exc |-> exc,
                   by |-> IF exc = "none" THEN "none" ELSE "validation"]]
    /\ UNCHANGED <<nodeVars, lockVars, stepVars, engine, scopes>>

\* the insert of the validated link
AddInsert(w) ==
    /\ adders[w].at = "validated"
    /\ \E r \in {AddDbLinkFrom(World, adders[w].link)} :
         /\ links' = r.w.links
         /\ adders' = [adders EXCEPT ![w].at = "done", ![w].exc = r.exc,
                                     ![w].by = IF r.exc = "none" THEN "none"
                                               ELSE "constraint"]
    /\ UNCHANGED <<nodes, rows, caching, edits, nlinks>>
    /\ UNCHANGED <<lockVars, stepVars, engine, scopes>>

Validating == \E w \in Adders : AddValidate(w)

Inserting == \E w \in Adders : AddInsert(w)

NextAdd == Validating \/ Inserting

SpecAdd == InitAdd /\ [][NextAdd]_vars

\* --------------------------------------------------------------- cache
\* A stored calculation with its outputs, a new node that is about to be
\* stored, and free slots for the clones a cache hit makes.
CacheSlots == 1 .. (2 + 2 * MaxOutputs)

\* The calculation takes the first slot, its outputs the next ones.
Source == CHOOSE n \in CacheSlots : \A m \in CacheSlots : n <= m

Outputs == 2 .. (1 + MaxOutputs)

Fresh == 2 + MaxOutputs

SourceClasses == {"Calc", "Workflow"}

FreshClasses == {"Calc", "Data", "Workflow"}

OutputLabel(o) == LabelSeq[o - 1]

\* The stored calculation: finished, sealed or not.
SourceNode(cls, sealed) ==
    LET nd == [BlankNode EXCEPT !.cls = cls, !.uuid = UuidOf(Source), !.pk = PkOf(Source),
                   !.to_be_stored = FALSE, !.cache_deleted = TRUE,
                   !.label = "l",
                   !.attributes = [NoAttrs EXCEPT
                       !["x"] = "1",
                       ![PROCESS_STATE_KEY] = FINISHED,
                       ![EXIT_STATUS_KEY] = "0",
                       ![SEALED_KEY] = IF sealed THEN "True" ELSE None],
                   !.repo_folder = <<{"f"}>>]
    IN  [nd EXCEPT !.extras._aiida_hash = GetHash(nd)]

InitCache ==
    /\ \E cls \in SourceClasses, sealed \in BOOLEAN, fresh \in FreshClasses,
          type \in [Outputs -> {"CREATE", "RETURN"}] :
          /\ nodes = [n \in CacheSlots |->
                IF n = Source THEN SourceNode(cls, sealed)
                ELSE IF n \in Outputs THEN StoredNode(n, "Data")
                ELSE IF n = Fresh
                THEN [BlankNode EXCEPT !.cls = fresh, !.uuid = UuidOf(n)]
                ELSE BlankNode]
          /\ links = {[src |-> Source, tgt |-> o, type |-> type[o], label |-> OutputLabel(o)] :
                         o \in Outputs}
    /\ rows = {Source} \cup Outputs
    /\ caching \in Configs \cup {[default |-> TRUE, enabled |-> {}, disabled |-> {}]}
    /\ edits = 0
    /\ nlinks = 0
    /\ LockInit

CacheAttrInputs ==
    {[key |-> "x", value |-> "1"], [key |-> "x", value |-> "2"],
     [key |-> "x", value |-> Unhashable]}

\* node._set_attr(key, value) on the new node
CacheSetAttr ==
    \E in \in CacheAttrInputs :
        /\ nodes' = [nodes EXCEPT ![Fresh] = SetAttrNode(nodes[Fresh], in.key, in.value, TRUE).nd]
        /\ UNCHANGED <<rows, links, caching, edits, nlinks>>
        /\ UNCHANGED sideVars

\* node.add_path(src_abs, dst_path) on the new node or a stored one
CacheAddPath ==
    \E n \in rows \cup {Fresh}, f \in Files :
        /\ nodes' = [nodes EXCEPT ![n] = AddPathNode(nodes[n], f).nd]
        /\ UNCHANGED <<rows, links, caching, edits, nlinks>>
        /\ UNCHANGED sideVars

\* node.remove_path(path) on the new node or a stored one
CacheRemovePath ==
    \E n \in rows \cup {Fresh}, f \in Files :
        /\ nodes' = [nodes EXCEPT ![n] = RemovePathNode(nodes[n], f).nd]
        /\ UNCHANGED <<rows, links, caching, edits, nlinks>>
        /\ UNCHANGED sideVars

\* node.store(use_cache=...) on the new node
CacheStore ==
    \E use_cache \in UseCacheArgs, pick \in CacheSlots :
        /\ pick \in Picks(World, Fresh)
        /\ \E r \in {StoreNode(World, Fresh, use_cache, "none", pick)} :
               /\ r.exc # "OutOfBound"
               /\ SetWorld(r.w)
        /\ UNCHANGED <<edits, nlinks>>
        /\ UNCHANGED sideVars

\* node.clear_hash() on the calculation or on the new node once it is stored
CacheClearHash ==
    \E n \in rows \cap {Source, Fresh} :
        /\ nodes' = [nodes EXCEPT ![n] = ClearHash(nodes[n]).nd]
        /\ UNCHANGED <<rows, links, caching, edits, nlinks>>
        /\ UNCHANGED sideVars

\* node.rehash() on the calculation or on the new node once it is stored
CacheRehash ==
    \E n \in rows \cap {Source, Fresh} :
        /\ nodes' = [nodes EXCEPT ![n] = Rehash(nodes[n]).nd]
        /\ UNCHANGED <<rows, links, caching, edits, nlinks>>
        /\ UNCHANGED sideVars

\* node._set_attr(EXIT_STATUS_KEY, value) on a stored node
CacheWrite ==
    \E n \in rows, value \in ExitStatuses :
        /\ nodes' = [nodes EXCEPT ![n] = SetAttrNode(nodes[n], EXIT_STATUS_KEY, value, TRUE).nd]
        /\ UNCHANGED <<rows, links, caching, edits, nlinks>>
        /\ UNCHANGED sideVars

\* node.seal() on a stored node
CacheSeal ==
    \E n \in rows :
        /\ nodes' = [nodes EXCEPT ![n] = SealNode(nodes[n]).nd]
        /\ UNCHANGED <<rows, links, caching, edits, nlinks>>
        /\ UNCHANGED sideVars

NextCache ==
    \/ CacheWrite
    \/ CacheSeal
    \/ CacheSetAttr
    \/ CacheAddPath
    \/ CacheRemovePath
    \/ CacheStore
    \/ CacheClearHash
    \/ CacheRehash

SpecCache == InitCache /\ [][NextCache]_vars

\* ----------------------------------------------- kill of a called tree
\* Stored, running calculations joined by CALL links; they finish and are
\* sealed while kill() is called on the work calculations.
\* The trees of calls under node 1: every other node was called by a node
\* created before it.
CallTrees ==
    {parent \in [Nodes -> 0 .. MaxNodes] :
        \A n \in Nodes : parent[n] < n /\ (n > 1 => parent[n] # 0)}

KillStatus == "0"

InitKill ==
    /\ \E cls \in [Nodes -> CalledClasses], parent \in CallTrees :
          /\ cls[1] = "Work"
          /\ \A n \in Nodes : parent[n] # 0 => cls[parent[n]] = "Work"
          /\ nodes = [n \in Nodes |->
                 [StoredNode(n, cls[n]) EXCEPT !.attributes[PROCESS_STATE_KEY] = RUNNING]]
          /\ links = {[src |-> parent[n], tgt |-> n, type |-> "CALL", label |-> "CALL"] :
                         n \in {m \in Nodes : parent[m] # 0}}
    /\ rows = Nodes
    /\ caching = [default |-> FALSE, enabled |-> {}, disabled |-> {}]
    /\ edits = 0
    /\ nlinks = 0
    /\ LockInit

\* the engine finishes a calculation
Advance ==
    \E n \in Nodes :
        /\ EngineNext(ProcessState(nodes[n]), FINISHED)
        /\ nodes' = [nodes EXCEPT ![n] = EnterState(nodes[n], FINISHED, KillStatus).nd]
        /\ UNCHANGED <<rows, links, caching, edits, nlinks>>
        /\ UNCHANGED sideVars

\* node.seal() of a finished calculation
SealCalled ==
    \E n \in Nodes :
        /\ IsTerminated(nodes[n])
        /\ ~IsSealed(nodes[n])
        /\ nodes' = [nodes EXCEPT ![n] = SealNode(nodes[n]).nd]
        /\ UNCHANGED <<rows, links, caching, edits, nlinks>>
        /\ UNCHANGED sideVars

Refusals == SUBSET {n \in Nodes : nodes[n].cls = "Function"}

\* node.kill() on a work calculation
Kill ==
    \E n \in Nodes, refusing \in Refusals :
        /\ nodes[n].cls = "Work"
        /\ SetWorld(KillNode(World, n, refusing).w)
        /\ UNCHANGED <<edits, nlinks>>
        /\ UNCHANGED sideVars

NextKill == Advance \/ SealCalled \/ Kill

SpecKill == InitKill /\ [][NextKill]_vars

\* ------------------------------------------ the engine, write by write
\* A process instance in a worker's memory and its node.  A transition
\* changes the instance, then makes its writes to the node one by one; the
\* worker may crash between any two of them, and the process is loaded again
\* from the checkpoint of its node.
\* Processes do not share anything: the first one is followed.
Engines == {p \in Procs : p = 1}

Instances == [state : ProcessStates, step : 0 .. MaxSteps]

StepNames == [k \in 0 .. MaxSteps |-> CASE k = 0 -> "0" [] k = 1 -> "1" [] k = 2 -> "2"
                                       [] k = 3 -> "3" [] OTHER -> "n"]

\* Bundle that saves the state and not the point of execution.
BundleStateOnly(inst) == inst.state \o "@" \o StepNames[0]

\* plumpy.Bundle(proc): the saved instance state, serialized
Bundle(inst) == inst.state \o "@" \o StepNames[inst.step]

\* bundle.unbundle(): the instance the serialized state describes
Unbundle(b) ==
    CHOOSE i \in Instances : b = i.state \o "@" \o StepNames[i.step]

\* EnterWrites with the process state written before the checkpoint.
EnterWritesStateFirst(inst, status) ==
    IF inst.state = FINISHED
    THEN <<[key |-> EXIT_STATUS_KEY, value |-> status],
           [key |-> PROCESS_STATE_KEY, value |-> inst.state]>>
    ELSE IF inst.state \in {RUNNING, WAITING}
    THEN <<[key |-> PROCESS_STATE_KEY, value |-> inst.state],
           [key |-> CHECKPOINT_KEY, value |-> Bundle(inst)]>>
    ELSE <<[key |-> PROCESS_STATE_KEY, value |-> inst.state]>>

\* The writes of a transition, in their order: the checkpoint of a running
\* or waiting process, the exit status of a finished one, then the state.
EnterWrites(inst, status) ==
    IF inst.state = FINISHED
    THEN <<[key |-> EXIT_STATUS_KEY, value |-> status],
           [key |-> PROCESS_STATE_KEY, value |-> inst.state]>>
    ELSE IF inst.state \in {RUNNING, WAITING}
    THEN <<[key |-> CHECKPOINT_KEY, value |-> Bundle(inst)],
           [key |-> PROCESS_STATE_KEY, value |-> inst.state]>>
    ELSE <<[key |-> PROCESS_STATE_KEY, value |-> inst.state]>>

Checkpoint(nd) == nd.attributes[CHECKPOINT_KEY]

\* the instance enters the state `to`
EngineStepTo(p, to, status) ==
    /\ engine[p].alive
    /\ engine[p].todo = <<>>
    /\ EngineNext(engine[p].inst.state, to)
    /\ to = WAITING => engine[p].inst.step < MaxSteps
    /\ to # FINISHED => status = "0"
    /\ \E i \in {[state |-> to,
                    step |-> IF to = WAITING THEN engine[p].inst.step + 1
                             ELSE engine[p].inst.step]} :
          engine' = [engine EXCEPT ![p].inst = i, ![p].todo = EnterWrites(i, status)]
    /\ UNCHANGED <<nodeVars, lockVars, stepVars, adders, scopes>>

\* the instance enters its next state
EngineStep(p) ==
    \E to \in ProcessStates, status \in ExitStatuses : EngineStepTo(p, to, status)

\* the next write of the transition; after the last one control is back
\* with the scheduler
EngineWrite(p) ==
    /\ engine[p].alive
    /\ engine[p].todo # <<>>
    /\ \E wr \in {Head(engine[p].todo)} :
          /\ nodes' = [nodes EXCEPT ![p] = SetAttrNode(nodes[p], wr.key, wr.value, TRUE).nd]
          /\ engine' = [engine EXCEPT
                 ![p].todo = Tail(@),
                 ![p].entered = IF wr.key = PROCESS_STATE_KEY /\ wr.value = WAITING
                                THEN engine[p].inst.step ELSE @]
    /\ UNCHANGED <<rows, links, caching, edits, nlinks>>
    /\ UNCHANGED <<lockVars, stepVars, adders, scopes>>

\* node.seal() when the process has terminated
EngineSeal(p) ==
    /\ engine[p].alive
    /\ engine[p].todo = <<>>
    /\ IsTerminated(nodes[p])
    /\ ~IsSealed(nodes[p])
    /\ nodes' = [nodes EXCEPT ![p] = SealNode(nodes[p]).nd]
    /\ UNCHANGED <<rows, links, caching, edits, nlinks>>
    /\ UNCHANGED sideVars

\* the worker crashes, or the instance is closed: what is in memory is lost
EngineCrash(p) ==
    /\ engine[p].alive
    /\ engine' = [engine EXCEPT ![p].alive = FALSE, ![p].inst = NewInstance,
                                 ![p].todo = <<>>]
    /\ UNCHANGED <<nodeVars, lockVars, stepVars, adders, scopes>>

\* a worker loads the process again from the checkpoint of its node
EngineReload(p) ==
    /\ ~engine[p].alive
    /\ ~IsTerminated(nodes[p])
    /\ engine' = [engine EXCEPT
           ![p].alive = TRUE,
           ![p].inst = IF Checkpoint(nodes[p]) = None THEN NewInstance
                       ELSE Unbundle(Checkpoint(nodes[p]))]
    /\ UNCHANGED <<nodeVars, lockVars, stepVars, adders, scopes>>

\* a client keeps the checkpoint that is persisted while the process waits
EngineHold(p) ==
    /\ engine[p].alive
    /\ engine[p].todo = <<>>
    /\ engine[p].inst.state = WAITING
    /\ engine[p].held = NoBundle
    /\ engine' = [engine EXCEPT ![p].held = Checkpoint(nodes[p]),
                                 ![p].then = engine[p].inst]
    /\ UNCHANGED <<nodeVars, lockVars, stepVars, adders, scopes>>

Step == \E p \in Engines : EngineStep(p)

WriteNext == \E p \in Engines : EngineWrite(p)

SealTerminated == \E p \in Engines : EngineSeal(p)

Crash == \E p \in Engines : EngineCrash(p)

Reload == \E p \in Engines : EngineReload(p)

Hold == \E p \in Engines : EngineHold(p)

NextEngine == Step \/ WriteNext \/ SealTerminated \/ Crash \/ Reload \/ Hold

SpecEngine == InitProc /\ [][NextEngine]_vars

\* ------------------------------------------------ run() to completion
\* run(process): the calling thread drives the process until it has
\* terminated, seals its node and returns.  No step raises, nobody kills the
\* process and its outcome is the exit status zero.
\* The processes that are run side by side.
Runs == {p \in Procs : p <= 2}

RunStates == {RUNNING, WAITING, FINISHED}

RunStep(p) == \E to \in RunStates : EngineStepTo(p, to, "0")

\* RunReturn that does not wait for the seal.
RunReturnOnTerminated(p) ==
    /\ engine[p].alive
    /\ engine[p].todo = <<>>
    /\ IsTerminated(nodes[p])
    /\ engine' = [engine EXCEPT ![p].alive = FALSE]
    /\ UNCHANGED <<nodeVars, lockVars, stepVars, adders, scopes>>

\* run() returns: the process is closed after its node was sealed
RunReturn(p) ==
    /\ engine[p].alive
    /\ engine[p].todo = <<>>
    /\ IsTerminated(nodes[p])
    /\ IsSealed(nodes[p])
    /\ engine' = [engine EXCEPT ![p].alive = FALSE]
    /\ UNCHANGED <<nodeVars, lockVars, stepVars, adders, scopes>>

RunOf(p) == RunStep(p) \/ EngineWrite(p) \/ EngineSeal(p) \/ RunReturn(p)

RunEnters == \E p \in Runs : RunStep(p)

RunWrites == \E p \in Runs : EngineWrite(p)

RunSeals == \E p \in Runs : EngineSeal(p)

RunReturns == \E p \in Runs : RunReturn(p)

NextRun == RunEnters \/ RunWrites \/ RunSeals \/ RunReturns

\* The loop of run() does not stop while the process has a step to take.
SpecRun == InitProc /\ [][NextRun]_vars /\ \A p \in Runs : WF_vars(RunOf(p))

\* ---------------------------------------- the caching configuration
\* The classes the configuration may name; None is the call without a class.
ConfigClasses == {"Bool", "Float", "Int", "Templatereplacer"}

ScopeArgs == ConfigClasses \cup {None}

\* The configuration the tests load.
TestConfig ==
    [default |-> TRUE, enabled |-> {"Bool", "Float"},
     disabled |-> {"Templatereplacer", "Bool"}]

\* What configure() can load: a default and two lists of classes, which may
\* overlap.
LoadedConfigs ==
    [default : BOOLEAN, enabled : SUBSET ConfigClasses, disabled : SUBSET ConfigClasses]

\* get_use_cache(node_class) as called: a class that is listed both enabled
\* and disabled is an invalid configuration and raises ValueError; otherwise
\* the explicit entry, otherwise the default.
GetUseCacheCall(cfg, cls) ==
    IF cls \in cfg.enabled /\ cls \in cfg.disabled
    THEN [value |-> FALSE, exc |-> "ValueError"]
    ELSE [value |-> GetUseCache(cfg, cls), exc |-> "none"]

\* enable_caching(node_class), the body before the yield: without a class the
\* default becomes true, with one the class is listed enabled and no longer
\* disabled.
EnableCaching(cfg, cls) ==
    IF cls = None THEN [cfg EXCEPT !.default = TRUE]
    ELSE [cfg EXCEPT !.enabled = @ \cup {cls}, !.disabled = @ \ {cls}]

\* disable_caching(node_class), the body before the yield.
DisableCaching(cfg, cls) ==
    IF cls = None THEN [cfg EXCEPT !.default = FALSE]
    ELSE [cfg EXCEPT !.disabled = @ \cup {cls}, !.enabled = @ \ {cls}]

\* A scope exit that leaves the configuration as the scope made it.
ResetConfigKept(cfg, saved) == cfg

\* The exit of a scope: the configuration is the copy taken at its entry.
ResetConfig(cfg, saved) == saved

\* The configuration and the open scopes after entering a scope.
EnterScope(cfg, open, kind, cls) ==
    [caching |-> IF kind = "enable" THEN EnableCaching(cfg, cls)
                 ELSE DisableCaching(cfg, cls),
     scopes |-> Append(open, cfg)]

\* The configuration and the open scopes after leaving the innermost scope.
LeaveScope(cfg, open) ==
    [caching |-> ResetConfig(cfg, open[Len(open)]),
     scopes |-> SubSeq(open, 1, Len(open) - 1)]

InitConfig ==
    /\ nodes = [n \in Nodes |-> BlankNode]
    /\ rows = {}
    /\ links = {}
    /\ caching \in LoadedConfigs
    /\ edits = 0
    /\ nlinks = 0
    /\ LockInit

\* with enable_caching(cls):
EnterEnable ==
    \E cls \in ScopeArgs :
        /\ Len(scopes) < MaxScopes
        /\ \E r \in {EnterScope(caching, scopes, "enable", cls)} :
              /\ caching' = r.caching
              /\ scopes' = r.scopes
        /\ UNCHANGED <<nodes, rows, links, edits, nlinks, lockVars, stepVars, adders, engine>>

\* with disable_caching(cls):
EnterDisable ==
    \E cls \in ScopeArgs :
        /\ Len(scopes) < MaxScopes
        /\ \E r \in {EnterScope(caching, scopes, "disable", cls)} :
              /\ caching' = r.caching
              /\ scopes' = r.scopes
        /\ UNCHANGED <<nodes, rows, links, edits, nlinks, lockVars, stepVars, adders, engine>>

\* the with block of the innermost scope is left
ExitScope ==
    /\ scopes # <<>>
    /\ \E r \in {LeaveScope(caching, scopes)} :
          /\ caching' = r.caching
          /\ scopes' = r.scopes
    /\ UNCHANGED <<nodes, rows, links, edits, nlinks, lockVars, stepVars, adders, engine>>

NextConfig == EnterEnable \/ EnterDisable \/ ExitScope

SpecConfig == InitConfig /\ [][NextConfig]_vars

\* ============================================================ properties
\* The created nodes that are not stored yet, and the store() calls that
\* can be made on one of them.
Unstored == {n \in Nodes : Created(nodes[n]) /\ nodes[n].to_be_stored}

StoreCalls(n) ==
    {[use_cache |-> uc, pick |-> p] : uc \in UseCacheArgs, p \in Picks(World, n)}

SameNodeOf(n, call) ==
    IF UseCache(World, n, call.use_cache) THEN GetSameNode(World, n, call.pick) ELSE 0

C2_NonUpdatableFrozen ==
    /\ [](\A n \in rows :
            \A key \in Keys \ UpdatableAttributes(nodes[n].cls),
               value \in {"1", "2", NaN}, clean \in BOOLEAN :
                \A r \in {SetAttrNode(nodes[n], key, value, clean)} :
                    r.exc = "ModificationNotAllowed" /\ r.nd = nodes[n])
    /\ [][\A n \in rows' :
            Created(nodes[n]) =>
                \A key \in Keys \ UpdatableAttributes(nodes[n].cls) :
                    nodes'[n].attributes[key] = GetAttrs(nodes[n])[key]]_vars

\* A stored node with an attribute that was set before the store, and a write
\* to it that is refused.
C2_Witness ==
    \E n \in rows :
        /\ nodes[n].attributes["x"] = "1"
        /\ SetAttrNode(nodes[n], "x", "2", TRUE).exc = "ModificationNotAllowed"

\* C7: a store() that uses the cache and finds a same node without RETURN
\* links ends with the node stored and its cache source the uuid of that
\* node, a stored node of the same class with the same hash; a store()
\* without a cache hit ends with the node stored and no cache source.  Every
\* node created from the cache names such a stored node.
C7_CreatedFromCache ==
    /\ \A n \in Nodes :
          IsCreatedFromCache(nodes[n]) =>
              /\ n \in rows
              /\ \E c \in rows \ {n} :
                    /\ nodes[c].uuid = GetCacheSource(nodes[n])
                    /\ nodes[c].cls = nodes[n].cls
                    /\ nodes[c].extras._aiida_hash = nodes[n].extras._aiida_hash
    /\ \A n \in Unstored :
          CheckAreParentsStored(World, n) =>
              \A call \in StoreCalls(n) :
                  \A c \in {SameNodeOf(n, call)} :
                      \A r \in {StoreNode(World, n, call.use_cache, "none", call.pick)} :
                          IF c = 0
                          THEN /\ r.exc = "none"
                               /\ n \in r.w.rows
                               /\ ~IsCreatedFromCache(r.w.nodes[n])
                               /\ GetCacheSource(r.w.nodes[n]) = NoUuid
                          ELSE OutgoingLinks(World, c, "RETURN") = {} =>
                               /\ r.exc \in {"none", "OutOfBound"}
                               /\ r.exc = "none" =>
                                     /\ n \in r.w.rows
                                     /\ IsStored(r.w.nodes[n])
                                     /\ IsCreatedFromCache(r.w.nodes[n])
                                     /\ GetCacheSource(r.w.nodes[n]) = nodes[c].uuid
                                     /\ nodes[c].cls = nodes[n].cls
                                     /\ nodes[c].extras._aiida_hash = GetHash(nodes[n])

\* Two stored nodes, the second created from the first.
C7_Witness ==
    \E n \in rows, c \in rows :
        /\ n # c
        /\ IsCreatedFromCache(nodes[n])
        /\ GetCacheSource(nodes[n]) = nodes[c].uuid
        /\ ~IsCreatedFromCache(nodes[c])

\* C8: a store() whose cache candidate has an outgoing RETURN link raises
\* ValueError and stores nothing; an unstored node has no cache source, and in
\* no step does a node get a cache source whose node has a RETURN link, nor a
\* clone of an output of such a node.
C8_ReturnCandidateRejected ==
    /\ [](\A n \in Unstored :
            /\ ~IsCreatedFromCache(nodes[n])
            /\ CheckAreParentsStored(World, n) =>
                  \A call \in StoreCalls(n) :
                      \A c \in {SameNodeOf(n, call)} :
                          (c # 0 /\ OutgoingLinks(World, c, "RETURN") # {}) =>
                              \A r \in {StoreNode(World, n, call.use_cache, "none", call.pick)} :
                                  /\ r.exc = "ValueError"
                                  /\ r.w.nodes[n].to_be_stored
                                  /\ ~IsCreatedFromCache(r.w.nodes[n])
                                  /\ r.w.rows = rows
                                  /\ r.w.links = links
                                  /\ FreeSlots(r.w) = FreeSlots(World))
    /\ [][/\ \A n \in Nodes, c \in Nodes :
               (/\ GetCacheSource(nodes'[n]) = UuidOf(c)
                /\ GetCacheSource(nodes[n]) # UuidOf(c)) =>
                   c \in rows' /\ OutgoingLinks(World, c, "RETURN") = {}
          /\ \A l \in links' \ links :
               (l.type = "CREATE" /\ ~Created(nodes[l.tgt])) =>
                   \E c \in rows' :
                       /\ nodes'[c].uuid = GetCacheSource(nodes'[l.src])
                       /\ OutgoingLinks(World, c, "RETURN") = {}
                       /\ \E o \in links' :
                             /\ o.src = c
                             /\ o.type = "CREATE"
                             /\ nodes'[l.tgt].clone_of = o.tgt]_vars

\* An unstored node whose cache candidate has a RETURN link, and the store()
\* that is refused.
C8_Witness ==
    \E n \in Unstored, c \in rows :
        /\ OutgoingLinks(World, c, "RETURN") # {}
        /\ GetSameNode(World, n, c) = c
        /\ StoreNode(World, n, "true", "none", c).exc = "ValueError"

\* C9 (as stated): with caching disabled for every class no stored node is
\* created from the cache and no stored node has the _aiida_hash extra.
C9_NoHashWhenDisabled ==
    (\A cls \in StoredClasses : ~GetUseCache(caching, cls)) =>
        \A n \in rows :
            /\ ~IsCreatedFromCache(nodes[n])
            /\ nodes[n].extras._aiida_hash = NoExtra

\* C9 (amended): a store() that does not use the cache (get_use_cache of the
\* class is false and no use_cache is given, or use_cache is False) never
\* takes the cache-hit path and the node is not created from the cache; every
\* stored node has the _aiida_hash extra, its hash or None, whatever the
\* configuration of the cache.
C9_NoCachePathButHash ==
    /\ \A n \in rows :
          /\ nodes[n].extras._aiida_hash # NoExtra
          /\ nodes[n].extras._aiida_hash = GetHash(nodes[n])
    /\ \A n \in Unstored :
          CheckAreParentsStored(World, n) =>
              \A call \in StoreCalls(n) :
                  ~UseCache(World, n, call.use_cache) =>
                      \A r \in {StoreNode(World, n, call.use_cache, "none", call.pick)} :
                          /\ r.exc = "none"
                          /\ r.path = "db_store"
                          /\ n \in r.w.rows
                          /\ ~IsCreatedFromCache(r.w.nodes[n])
                          /\ r.w.nodes[n].extras._aiida_hash = GetHash(nodes[n])

\* Caching is disabled for every class, and two nodes with the same content
\* are stored: both have the hash extra, neither is created from the cache.
C9_Witness ==
    /\ \A cls \in StoredClasses : ~GetUseCache(caching, cls)
    /\ \E n \in rows, m \in rows :
          /\ n # m
          /\ nodes[n].extras._aiida_hash = nodes[m].extras._aiida_hash
          /\ nodes[n].extras._aiida_hash # NoExtra
          /\ ~IsCreatedFromCache(nodes[n])
          /\ ~IsCreatedFromCache(nodes[m])

\* C10 (as stated): store() of a valid, storable node whose cached parents
\* are stored ends with the node stored and raises nothing, whatever the
\* cache lookup and the cache-hit path do.
C10_CacheNeverBlocksStore ==
    \A n \in Unstored :
        (Storable(nodes[n].cls) /\ Validate(nodes[n]) /\ CheckAreParentsStored(World, n)) =>
            \A call \in StoreCalls(n) :
                \A r \in {StoreNode(World, n, call.use_cache, "none", call.pick)} :
                    r.exc # "OutOfBound" =>
                        r.exc = "none" /\ n \in r.w.rows /\ IsStored(r.w.nodes[n])

\* C3 (as stated): on a stored node at most one worker is inside an active
\* lock() scope, whatever attempts and exits are interleaved.
C3_AtMostOneHolder == dbnode.stored => Cardinality(Holders) <= 1

\* C4 (as stated): while a lock() scope on a stored node is active, no
\* lock() attempt through another handle enters its scope.
C4_NoEntryWhileHeld ==
    [][\A w \in Workers :
          (dbnode.stored /\ \E v \in Workers \ {w} : handles[v].depth > 0) =>
              handles'[w].depth <= handles[w].depth]_vars

\* The direct writes to the keys a seal freezes.
FrozenWrites ==
    {in \in ProcWrites : in.key \in {CHECKPOINT_KEY, PROCESS_STATE_KEY, EXIT_STATUS_KEY}}

\* C5 (as stated): once the state of a process is FINISHED, EXCEPTED or
\* KILLED it never changes again.
C5_TerminalNeverChanges ==
    [][\A n \in Procs :
          IsTerminated(nodes[n]) =>
              ProcessState(nodes'[n]) = ProcessState(nodes[n])]_vars

\* C5 (amended): at most one of is_finished, is_excepted and is_killed holds,
\* is_terminated (and has_finished) holds exactly when one of them does, the
\* engine has no transition out of a terminal state, and the state of a
\* sealed process never changes; a direct write may still change the state of
\* a terminated process that is not sealed.
C5_TerminalExclusive ==
    /\ [](\A n \in Procs :
            /\ ~(IsFinished(nodes[n]) /\ IsExcepted(nodes[n]))
            /\ ~(IsFinished(nodes[n]) /\ IsKilled(nodes[n]))
            /\ ~(IsExcepted(nodes[n]) /\ IsKilled(nodes[n]))
            /\ IsTerminated(nodes[n]) <=>
                  (IsFinished(nodes[n]) \/ IsExcepted(nodes[n]) \/ IsKilled(nodes[n]))
            /\ HasFinished(nodes[n]) <=> IsTerminated(nodes[n])
            /\ IsTerminated(nodes[n]) =>
                  \A to \in ProcessStates : ~EngineNext(ProcessState(nodes[n]), to)
            /\ (IsTerminated(nodes[n]) /\ ~IsSealed(nodes[n])) =>
                  \A to \in ProcessStates :
                      ProcessState(SetAttrNode(nodes[n], PROCESS_STATE_KEY, to, TRUE).nd) = to)
    /\ [][\A n \in Procs :
            IsSealed(nodes[n]) =>
                ProcessState(nodes'[n]) = ProcessState(nodes[n])]_vars

\* A killed process that is sealed.
C5_Witness == \E n \in Procs : IsKilled(nodes[n]) /\ IsSealed(nodes[n])

\* C6: seal() succeeds exactly on a terminated process that is not sealed
\* yet; on a sealed process every write to checkpoint, process_state or
\* exit_status raises ModificationNotAllowed and changes nothing, on a
\* terminated process that is not sealed the same writes succeed; no step
\* seals a process that is not terminated or changes a sealed one.
C6_SealFreezes ==
    /\ [](\A n \in Procs :
            /\ SealNode(nodes[n]).exc = "none" <=>
                  (IsTerminated(nodes[n]) /\ ~IsSealed(nodes[n]))
            /\ \A in \in FrozenWrites :
                  \A r \in {SetAttrNode(nodes[n], in.key, in.value, TRUE)} :
                      IF IsSealed(nodes[n])
                      THEN r.exc = "ModificationNotAllowed" /\ r.nd = nodes[n]
                      ELSE IsTerminated(nodes[n]) =>
                              r.exc = "none" /\ GetAttrs(r.nd)[in.key] = in.value)
    /\ [][\A n \in Procs :
            /\ IsSealed(nodes[n]) => nodes'[n] = nodes[n]
            /\ (IsSealed(nodes'[n]) /\ ~IsSealed(nodes[n])) => IsTerminated(nodes[n])]_vars

\* A finished process that is sealed next to a terminated one that is not.
C6_Witness ==
    \E n \in Procs, m \in Procs :
        /\ IsSealed(nodes[n]) /\ IsFinished(nodes[n])
        /\ GetAttrs(nodes[n])[EXIT_STATUS_KEY] # None
        /\ IsTerminated(nodes[m]) /\ ~IsSealed(nodes[m])

\* The sources of the cached incoming links of n.
CachedParents(n) ==
    {nodes[n].incoming_cache[i].node : i \in 1 .. Len(nodes[n].incoming_cache)}

\* C13: store() of a node with a cached incoming link from an unstored node
\* raises ModificationNotAllowed and changes nothing (no row, no move of the
\* files, the cache of incoming links as it was); when all direct parents are
\* stored, store() does not raise ModificationNotAllowed.
C13_UnstoredParentRefused ==
    \A n \in Unstored :
        \A call \in StoreCalls(n) :
            \A r \in {StoreNode(World, n, call.use_cache, "none", call.pick)} :
                IF CheckAreParentsStored(World, n)
                THEN r.exc # "ModificationNotAllowed"
                ELSE /\ r.exc = "ModificationNotAllowed"
                     /\ r.w = World
                     /\ n \notin r.w.rows
                     /\ r.w.nodes[n].to_be_stored
                     /\ r.w.nodes[n].repo_folder = NoFolder
                     /\ r.w.nodes[n].incoming_cache = nodes[n].incoming_cache

\* An unstored node with a cached link from an unstored node.
C13_Witness ==
    \E n \in Unstored :
        /\ \E p \in CachedParents(n) : p \in Unstored
        /\ StoreNode(World, n, "default", "none", 1).exc = "ModificationNotAllowed"

C15_LabelsUnique ==
    \A t \in Nodes :
        /\ \A l \in IncomingLinks(World, t), k \in IncomingLinks(World, t) :
              l.label = k.label => l = k
        /\ \A i \in 1 .. Len(nodes[t].incoming_cache), j \in 1 .. Len(nodes[t].incoming_cache) :
              nodes[t].incoming_cache[i].link_label = nodes[t].incoming_cache[j].link_label
                  => i = j
        /\ \A l \in IncomingLinks(World, t), i \in 1 .. Len(nodes[t].incoming_cache) :
              l.label # nodes[t].incoming_cache[i].link_label
        /\ Created(nodes[t]) =>
              \A s \in Nodes \ {t}, type \in LinkTypes, label \in Labels(3) :
                  (/\ Created(nodes[s])
                   /\ ValidLink(nodes[s].cls, nodes[t].cls, type)
                   /\ LabelInUse(World, t, label)) =>
                      \A r \in {AddIncomingNode(World, t, s, type, label)} :
                          r.exc = "UniquenessError" /\ r.w = World

\* A stored target with a persisted incoming link and an unstored target
\* with a cached one, on each of which the label is refused a second time.
C15_Witness ==
    /\ \E l \in links :
          AddIncomingNode(World, l.tgt, l.src, l.type, l.label).exc = "UniquenessError"
    /\ \E t \in Unstored :
          /\ Len(nodes[t].incoming_cache) > 0
          /\ AddIncomingNode(World, t, nodes[t].incoming_cache[1].node,
                             nodes[t].incoming_cache[1].link_type,
                             nodes[t].incoming_cache[1].link_label).exc = "UniquenessError"

\* C11 (as stated): every node that has a database row has its files in the
\* permanent repository folder, also after a failure at a step of store().
C11_RowHasRepositoryFolder ==
    \A n \in rows :
        /\ nodes[n].repo_folder # NoFolder
        /\ nodes[n].temp_folder = NoFolder

\* C12: from the move of the sandbox until store() is left the files are in
\* the repository folder; an exception raised by a later step of _db_store
\* leaves store() only through the handler, which moves the files back to a
\* sandbox, and the caller receives the exception that was raised.
C12_FilesRestoredAndReraised ==
    /\ [](\A n \in Nodes :
            /\ pc[n].at # "idle" =>
                  /\ nodes[n].repo_folder = pc[n].files
                  /\ nodes[n].temp_folder = NoFolder
            /\ pc[n].at = "except" <=> pc[n].raised # "none")
    /\ [][\A n \in Nodes :
            /\ (pc[n].at = "except" /\ pc'[n].at = "idle") =>
                  /\ pc'[n].left = pc[n].raised
                  /\ nodes'[n].temp_folder = pc[n].files
                  /\ nodes'[n].repo_folder = NoFolder
            /\ (pc[n].at \notin {"idle", "except"} /\ pc'[n].at = "idle") =>
                  /\ pc[n].at = "committed"
                  /\ pc'[n].left = "none"
            /\ (pc[n].at = "idle" /\ pc'[n].at = "idle") =>
                  pc'[n].left = pc[n].left]_vars

\* A store() of a node with a file that failed: the exception has left it
\* and the file is in the sandbox again.
C12_Witness ==
    \E n \in Nodes :
        /\ pc[n].at = "idle"
        /\ pc[n].left \in {"SQLAlchemyError", "UniquenessError"}
        /\ nodes[n].temp_folder = <<{"f"}>>
        /\ nodes[n].repo_folder = NoFolder

\* C16: when workers add an incoming link with the same label to the same
\* stored target, in every interleaving at most one link with that label is
\* persisted; once their calls have returned exactly one is, one worker has
\* succeeded with it and every other one has received UniquenessError.
C16_OneLinkPerLabel ==
    \A t \in Nodes, label \in AddLabels :
      \A same \in {{l \in links : l.tgt = t /\ l.label = label}} :
      \A done \in {{w \in Workers : /\ adders[w].at = "done"
                                     /\ adders[w].link.tgt = t
                                     /\ adders[w].link.label = label
                                     /\ adders[w].exc # "ValueError"}} :
        /\ Cardinality(same) <= 1
        /\ done # {} =>
              /\ Cardinality(same) = 1
              /\ Cardinality({w \in done : adders[w].exc = "none"}) = 1
              /\ \A w \in done :
                    IF adders[w].exc = "none" THEN adders[w].link \in same
                    ELSE adders[w].exc = "UniquenessError"

\* Two workers had both validated the same label for one target before
\* either inserted: one link is persisted, the insert of the other failed.
C16_Witness ==
    \E w1 \in Workers, w2 \in Workers :
        /\ w1 # w2
        /\ adders[w1].at = "done" /\ adders[w2].at = "done"
        /\ adders[w1].link.tgt = adders[w2].link.tgt
        /\ adders[w1].link.label = adders[w2].link.label
        /\ adders[w1].link.src # adders[w2].link.src
        /\ adders[w1].exc = "none"
        /\ adders[w2].by = "constraint"
        /\ adders[w2].exc = "UniquenessError"

\* The calculations kill() on n reaches: n and what it called, and so on.
RECURSIVE ReachedFrom(_, _)
ReachedFrom(front, k) ==
    IF k = 0 THEN front
    ELSE ReachedFrom(front \cup UNION {Called(World, m) : m \in front}, k - 1)

Reached(n) == ReachedFrom({n}, MaxNodes)

HasKillRequest(nd) == nd.attributes[DO_ABORT_KEY] = KillRequest

\* C17: when kill() on a work calculation returns, the calculation and every
\* calculation it reaches through CALL links that is not sealed has the kill
\* request, but for the terminated jobs, which were skipped; it returns also
\* when it has skipped jobs, and it raises InvalidOperation exactly when a
\* calculation it reaches refused for another reason.
C17_KillReachesCalled ==
    \A n \in {m \in Nodes : nodes[m].cls = "Work"}, refusing \in Refusals :
      \A r \in {KillNode(World, n, refusing)} :
        /\ r.exc \in {"none", "InvalidOperation"}
        /\ r.exc = "InvalidOperation" <=> refusing \cap Reached(n) # {}
        /\ r.exc = "none" =>
              \A m \in Reached(n) :
                  \/ IsSealed(nodes[m])
                  \/ nodes[m].cls = "Job" /\ IsTerminated(nodes[m])
                  \/ HasKillRequest(r.w.nodes[m])

\* A work calculation was killed: it has the request, a terminated job that
\* it called was skipped and a calculation called next to the job has the
\* request.
C17_Witness ==
    \E n \in Nodes, j \in Nodes, c \in Nodes :
        /\ nodes[n].cls = "Work" /\ HasKillRequest(nodes[n])
        /\ {j, c} \subseteq Called(World, n)
        /\ j < c
        /\ nodes[j].cls = "Job" /\ IsTerminated(nodes[j]) /\ ~IsSealed(nodes[j])
        /\ ~HasKillRequest(nodes[j])
        /\ HasKillRequest(nodes[c])

\* C18: kill() writes nothing but the kill request, and only to calculations
\* it reaches; no process_state changes, a sealed node takes no write, and no
\* row or link is added or removed; this also when it raises.
C18_KillOnlyRecords ==
    \A n \in {m \in Nodes : nodes[m].cls = "Work"}, refusing \in Refusals :
      \A r \in {KillNode(World, n, refusing)} :
        /\ r.w.rows = rows
        /\ r.w.links = links
        /\ \A m \in Nodes :
              /\ r.w.nodes[m] \in
                    {nodes[m], [nodes[m] EXCEPT !.attributes[DO_ABORT_KEY] = KillRequest]}
              /\ ProcessState(r.w.nodes[m]) = ProcessState(nodes[m])
              /\ (IsSealed(nodes[m]) \/ m \notin Reached(n)) => r.w.nodes[m] = nodes[m]

\* A running work calculation with a sealed one that it called: kill() of
\* the first has recorded the request on it and the second is as it was.
C18_Witness ==
    \E n \in Nodes, c \in Nodes :
        /\ nodes[n].cls = "Work" /\ HasKillRequest(nodes[n])
        /\ ProcessState(nodes[n]) = RUNNING
        /\ c \in Called(World, n)
        /\ nodes[c].cls = "Work"
        /\ IsSealed(nodes[c]) /\ ~HasKillRequest(nodes[c])

C22_ExtrasStayWritable ==
    /\ [](\A n \in Nodes : IsStored(nodes[n]) =>
            /\ \A in \in ExtraWrites, exclusive \in BOOLEAN :
                  With(SetDbExtra(nodes[n], in.key, in.value, exclusive),
                       LAMBDA r : /\ r.exc # "ModificationNotAllowed"
                                  /\ r.nd.attributes = nodes[n].attributes
                                  /\ ~exclusive => /\ r.exc = "none"
                                                    /\ r.nd.extras[in.key] = in.value)
            /\ With(Rehash(nodes[n]),
                     LAMBDA r : /\ r.exc = "none"
                                /\ r.nd.attributes = nodes[n].attributes
                                /\ r.nd.extras._aiida_hash = GetHash(nodes[n]))
            /\ With(ClearHash(nodes[n]),
                     LAMBDA r : /\ r.exc = "none"
                                /\ r.nd.attributes = nodes[n].attributes
                                /\ r.nd.extras._aiida_hash = NoneHash))
    /\ [][\A n \in Nodes :
            nodes'[n].extras # nodes[n].extras => nodes'[n].attributes = nodes[n].attributes]_vars

\* A sealed, finished node whose extras have been written and whose hash has
\* been cleared.
C22_Witness ==
    \E n \in Tagged :
        /\ IsSealed(nodes[n])
        /\ IsFinished(nodes[n])
        /\ nodes[n].extras.tag = "t"
        /\ nodes[n].extras._aiida_hash = NoneHash

\* C23: when make_hash fails on the content of a node, get_hash() returns
\* None (and raises only with ignore_errors=False), the cache lookup yields
\* no candidate whatever the stored nodes are, and store() does what it does
\* without the cache: the node is stored, with None as its hash and no cache
\* source.
C23_HashFailureIsNoCacheHit ==
    \A n \in DOMAIN nodes :
        (Created(nodes[n]) /\ MakeHashFails(GetObjectsToHash(nodes[n]))) =>
            /\ GetHashCall(nodes[n], TRUE) = [value |-> NoneHash, exc |-> "none"]
            /\ GetHashCall(nodes[n], FALSE).exc = "Exception"
            /\ IterAllSameNodes(World, n) = {}
            /\ \A pick \in CacheSlots : GetSameNode(World, n, pick) = 0
            /\ nodes[n].to_be_stored =>
                  \A uc \in UseCacheArgs, pick \in CacheSlots :
                      \A r \in {StoreNode(World, n, uc, "none", pick)} :
                          /\ r = DbStore(World, n, "none")
                          /\ r.exc = "none"
                          /\ r.w.rows = rows \cup {n}
                          /\ IsStored(r.w.nodes[n])
                          /\ r.w.nodes[n].extras._aiida_hash = NoneHash
                          /\ ~IsCreatedFromCache(r.w.nodes[n])

\* A node whose hash fails, stored with the cache in use next to a stored
\* node of its class whose hash was cleared.
C23_Witness ==
    /\ Fresh \in rows
    /\ nodes[Fresh].attributes["x"] = Unhashable
    /\ nodes[Fresh].extras._aiida_hash = NoneHash
    /\ nodes[Source].cls = nodes[Fresh].cls
    /\ nodes[Source].extras._aiida_hash = NoneHash
    /\ GetUseCache(caching, nodes[Fresh].cls)

\* What _get_same_node returns for node n when the query yields pick first:
\* None, or a stored node of the class of n whose _aiida_hash is the current
\* hash of n and that is a valid cache, the first of them in query order;
\* None exactly when there is no such node, which is the case when the class
\* is not cacheable or the hash is empty.
SameNodeContract(n, pick) ==
    \A c \in {GetSameNode(World, n, pick)} :
        /\ c # 0 =>
              /\ c \in rows
              /\ IsStored(nodes[c])
              /\ nodes[c].cls = nodes[n].cls
              /\ nodes[c].extras._aiida_hash = GetHash(nodes[n])
              /\ IsValidCache(nodes[c])
              /\ pick \in IterAllSameNodes(World, n) => c = pick
        /\ c = 0 <=>
              ~\E d \in rows :
                  /\ Cacheable(nodes[n].cls)
                  /\ GetHash(nodes[n]) # NoneHash
                  /\ nodes[d].cls = nodes[n].cls
                  /\ nodes[d].extras._aiida_hash = GetHash(nodes[n])
                  /\ IsValidCache(nodes[d])

\* C24 (as stated): _get_same_node returns None or the first stored valid
\* cache of the same class and hash, and None when there is none, when the
\* class is not cacheable, when the hash is empty or when caching is disabled
\* for the class or globally.
C24_SameNodeUnlessDisabled ==
    \A n \in DOMAIN nodes, pick \in CacheSlots :
        Created(nodes[n]) =>
            /\ SameNodeContract(n, pick)
            /\ ~GetUseCache(caching, nodes[n].cls) => GetSameNode(World, n, pick) = 0

\* C24 (amended): _get_same_node returns None or the first stored valid
\* cache of the same class and hash, and None when there is none, when the
\* class is not cacheable or when the hash is empty.  It does not look at the
\* caching configuration: it is store() that does not call it when caching
\* is disabled for the class (or use_cache is false), and then takes the
\* plain store.
C24_SameNode ==
    \A n \in DOMAIN nodes, pick \in CacheSlots :
        Created(nodes[n]) =>
            /\ SameNodeContract(n, pick)
            /\ GetSameNode(World, n, pick) =
                  GetSameNode([World EXCEPT !.caching =
                                  [default |-> FALSE, enabled |-> {}, disabled |-> {}]], n, pick)
            /\ (nodes[n].to_be_stored /\ ~GetUseCache(caching, nodes[n].cls)) =>
                  /\ StoreNode(World, n, "default", "none", pick) = DbStore(World, n, "none")
                  /\ StoreNode(World, n, "false", "none", pick) = DbStore(World, n, "none")

\* Caching is disabled for the class of the new node and _get_same_node
\* returns the stored calculation for it.
C24_Witness ==
    /\ nodes[Fresh].to_be_stored
    /\ ~GetUseCache(caching, nodes[Fresh].cls)
    /\ GetSameNode(World, Fresh, Source) = Source

\* The nodes that the store of n has made as clones of o, linked from n by
\* a CREATE link with the given label.
NewClones(r, n, o, label) ==
    {m \in r.w.rows \ rows :
        /\ m # n
        /\ IsStored(r.w.nodes[m])
        /\ r.w.nodes[m].clone_of = o
        /\ r.w.nodes[m].cls = nodes[o].cls
        /\ r.w.nodes[m].attributes = nodes[o].attributes
        /\ r.w.nodes[m].repo_folder = nodes[o].repo_folder
        /\ [src |-> n, tgt |-> m, type |-> "CREATE", label |-> label] \in r.w.links}

\* C25: a store() that takes a cache hit from S (S has no RETURN links)
\* succeeds and leaves, for every CREATE link (S, O, label), exactly one new
\* stored clone of O with a CREATE link from the stored node under that
\* label, and no other new node or link; S, its outputs and the links that
\* existed are as they were, and the stored node is not sealed.
C25_OutputsCloned ==
    \A uc \in UseCacheArgs, pick \in CacheSlots :
        (nodes[Fresh].to_be_stored /\ pick \in Picks(World, Fresh)) =>
            \A c \in {IF UseCache(World, Fresh, uc) THEN GetSameNode(World, Fresh, pick) ELSE 0} :
                (c # 0 /\ OutgoingLinks(World, c, "RETURN") = {}) =>
                    \A r \in {StoreNode(World, Fresh, uc, "none", pick)} :
                        /\ r.exc = "none"
                        /\ Fresh \in r.w.rows
                        /\ GetCacheSource(r.w.nodes[Fresh]) = nodes[c].uuid
                        /\ \A l \in OutgoingLinks(World, c, "CREATE") :
                              Cardinality(NewClones(r, Fresh, l.tgt, l.label)) = 1
                        /\ Cardinality(r.w.rows \ (rows \cup {Fresh})) =
                              Cardinality(OutgoingLinks(World, c, "CREATE"))
                        /\ Cardinality(r.w.links \ links) =
                              Cardinality(OutgoingLinks(World, c, "CREATE"))
                        /\ links \subseteq r.w.links
                        /\ \A m \in rows : r.w.nodes[m] = nodes[m]
                        /\ ~IsSealed(r.w.nodes[Fresh])
                        /\ r.w.nodes[Fresh].attributes =
                              [nodes[c].attributes EXCEPT ![SEALED_KEY] = None]

\* The new node stored from the sealed calculation, with a stored clone of
\* its output under the label of the output.
C25_Witness ==
    /\ Fresh \in rows
    /\ GetCacheSource(nodes[Fresh]) = nodes[Source].uuid
    /\ IsSealed(nodes[Source])
    /\ ~IsSealed(nodes[Fresh])
    /\ \E o \in Outputs, m \in rows \ ({Source, Fresh} \cup Outputs) :
          /\ nodes[m].clone_of = o
          /\ [src |-> Source, tgt |-> o, type |-> "CREATE", label |-> OutputLabel(o)] \in links
          /\ [src |-> Fresh, tgt |-> m, type |-> "CREATE", label |-> OutputLabel(o)] \in links

C27_RepositoryFolderFrozen ==
    /\ [](\A n \in DOMAIN nodes, f \in Files :
            Created(nodes[n]) =>
                IF IsStored(nodes[n])
                THEN /\ AddPathNode(nodes[n], f) =
                          [nd |-> nodes[n], exc |-> "ModificationNotAllowed"]
                     /\ RemovePathNode(nodes[n], f) =
                          [nd |-> nodes[n], exc |-> "ModificationNotAllowed"]
                ELSE /\ AddPathNode(nodes[n], f) =
                          [nd |-> [nodes[n] EXCEPT !.temp_folder =
                                      <<GetTempFolder(nodes[n])[1] \cup {f}>>],
                           exc |-> "none"]
                     /\ RemovePathNode(nodes[n], f) =
                          [nd |-> [nodes[n] EXCEPT !.temp_folder =
                                      <<GetTempFolder(nodes[n])[1] \ {f}>>],
                           exc |-> "none"]
                     /\ nodes[n].repo_folder = NoFolder)
    /\ [][\A n \in DOMAIN nodes :
            (Created(nodes[n]) /\ IsStored(nodes[n])) =>
                nodes'[n].repo_folder = nodes[n].repo_folder]_vars

\* The new node stored with the file it was given by add_path, next to the
\* stored calculation: remove_path on the one and add_path on the other are
\* refused.
C27_Witness ==
    /\ Fresh \in rows
    /\ ~IsCreatedFromCache(nodes[Fresh])
    /\ nodes[Fresh].repo_folder = <<{"f"}>>
    /\ RemovePathNode(nodes[Fresh], "f").exc = "ModificationNotAllowed"
    /\ AddPathNode(nodes[Source], "f").exc = "ModificationNotAllowed"

\* C28: is_finished_ok holds exactly when the state is FINISHED and the exit
\* status zero, is_failed when it is FINISHED and the exit status is not
\* zero; the two never hold together and neither holds for an EXCEPTED or a
\* KILLED process.  format_state shows the exit status of a finished process
\* only.
C28_FinishedOkOrFailed ==
    \A n \in Procs :
        /\ IsFinishedOk(nodes[n]) <=>
              (ProcessState(nodes[n]) = FINISHED /\ ExitStatus(nodes[n]) = "0")
        /\ IsFailed(nodes[n]) <=>
              (ProcessState(nodes[n]) = FINISHED /\ ExitStatus(nodes[n]) # "0")
        /\ ~(IsFinishedOk(nodes[n]) /\ IsFailed(nodes[n]))
        /\ IsFinished(nodes[n]) <=> (IsFinishedOk(nodes[n]) \/ IsFailed(nodes[n]))
        /\ (IsExcepted(nodes[n]) \/ IsKilled(nodes[n])) =>
              /\ ~IsFinishedOk(nodes[n])
              /\ ~IsFailed(nodes[n])
              /\ \A paused \in {None, "True"} :
                    FormatState(ProcessState(nodes[n]), paused, ExitStatus(nodes[n])) =
                        "U+2A2F " \o FormatProcessState(ProcessState(nodes[n]))
        /\ IsFinishedOk(nodes[n]) =>
              FormatState(ProcessState(nodes[n]), None, ExitStatus(nodes[n])) = "U+23F9 Finished [0]"
        /\ (IsFailed(nodes[n]) /\ ExitStatus(nodes[n]) # None) =>
              FormatState(ProcessState(nodes[n]), None, ExitStatus(nodes[n])) = "U+23F9 Finished [1]"

\* One process finished with exit status zero, another finished with a
\* non-zero exit status, and an excepted or killed one carries an exit status.
C28_Witness ==
    \E n \in Procs, m \in Procs :
        /\ IsFinishedOk(nodes[n])
        /\ IsSealed(nodes[n])
        /\ \/ IsFailed(nodes[m]) /\ ExitStatus(nodes[m]) = "1"
           \/ IsExcepted(nodes[m]) /\ ExitStatus(nodes[m]) = "1"

C30_FailedStoreLeavesNothing ==
    \A n \in Nodes :
        (pc[n].at = "idle" /\ pc[n].left # "none") =>
            /\ ~IsStored(nodes[n])
            /\ n \notin rows
            /\ n \notin session.new
            /\ \A l \in links \cup session.links : l.tgt # n

\* C31: enable_caching(cls) and disable_caching(cls) override get_use_cache(cls)
\* only inside their scope: inside, get_use_cache(cls) is true under
\* enable_caching and false under disable_caching; once the scope is left,
\* get_use_cache gives for every class what it gave before the scope was
\* entered (its value, or the ValueError of an invalid configuration), and the
\* enclosing scopes are as they were.
C31_ScopedOverride ==
    \A kind \in {"enable", "disable"}, cls \in ScopeArgs :
        \A inside \in {EnterScope(caching, scopes, kind, cls)} :
            /\ GetUseCacheCall(inside.caching, cls)
                   = [value |-> (kind = "enable"), exc |-> "none"]
            /\ \A after \in {LeaveScope(inside.caching, inside.scopes)} :
                  /\ after.scopes = scopes
                  /\ \A c \in ScopeArgs :
                        GetUseCacheCall(after.caching, c) = GetUseCacheCall(caching, c)

\* A scope is open that changed what get_use_cache gives for some class, and
\* leaving it brings the former answer back.
C31_Witness ==
    /\ scopes # <<>>
    /\ \E cls \in ConfigClasses :
          /\ GetUseCacheCall(caching, cls) # GetUseCacheCall(scopes[Len(scopes)], cls)
          /\ GetUseCacheCall(LeaveScope(caching, scopes).caching, cls)
                 = GetUseCacheCall(scopes[Len(scopes)], cls)

\* C32: an explicit entry of the configuration takes precedence over the
\* default: a class listed only as disabled gets false and a class listed only
\* as enabled gets true, whatever the default; inside a global
\* disable_caching() a class listed only as enabled stays true and a class
\* without an entry gets false; for a class listed both as enabled and as
\* disabled get_use_cache raises ValueError.
C32_ExplicitBeatsDefault ==
    \A cls \in ConfigClasses :
        \A r \in {GetUseCacheCall(caching, cls)},
           g \in {GetUseCacheCall(EnterScope(caching, scopes, "disable", None).caching,
                                  cls)} :
            /\ (cls \in caching.enabled /\ cls \in caching.disabled)
                   => r.exc = "ValueError"
            /\ (cls \in caching.disabled /\ cls \notin caching.enabled)
                   => r = [value |-> FALSE, exc |-> "none"]
            /\ (cls \in caching.enabled /\ cls \notin caching.disabled)
                   => /\ r = [value |-> TRUE, exc |-> "none"]
                      /\ g = [value |-> TRUE, exc |-> "none"]
            /\ (cls \notin caching.enabled /\ cls \notin caching.disabled)
                   => /\ r = [value |-> caching.default, exc |-> "none"]
                      /\ g = [value |-> FALSE, exc |-> "none"]

\* The configuration of the tests inside a global disable_caching(): the
\* default was true, Float is listed enabled, Templatereplacer disabled, Bool
\* both, Int not at all.
C32_Witness ==
    /\ Len(scopes) = 1
    /\ scopes[1] = TestConfig
    /\ caching = [TestConfig EXCEPT !.default = FALSE]
    /\ GetUseCacheCall(caching, "Float").value
    /\ ~GetUseCacheCall(caching, "Int").value
    /\ ~GetUseCacheCall(scopes[1], "Templatereplacer").value
    /\ GetUseCacheCall(caching, "Bool").exc = "ValueError"

\* C33: store() on an instance of a class that is not storable (Node itself,
\* ProcessNode itself) raises StoringNotAllowed before anything else happens:
\* whatever use_cache is and whatever the database would do, nothing is
\* validated, looked up in the cache or changed; the node stays unstored, with
\* its cached attributes, its cached links and its sandbox folder as they were.
C33_UnstorableStoreChangesNothing ==
    \A n \in Unstored :
        nodes[n].cls \in BareClasses =>
            \A call \in StoreCalls(n), fault \in StepFaults :
                StoreNode(World, n, call.use_cache, fault, call.pick)
                    = Raise(World, "StoringNotAllowed")

\* An unstored Node or ProcessNode instance with a cached link from a stored
\* parent and with a cached attribute or a file in its sandbox; store() on it
\* raises StoringNotAllowed.
C33_Witness ==
    \E n \in Unstored :
        /\ nodes[n].cls \in BareClasses
        /\ nodes[n].incoming_cache # <<>>
        /\ IsStored(nodes[nodes[n].incoming_cache[1].node])
        /\ (nodes[n].attrs_cache # NoAttrs \/ nodes[n].temp_folder # NoFolder)
        /\ StoreNode(World, n, "default", "none", 1).exc = "StoringNotAllowed"

\* The process nodes there are: created instances of ProcessNode subclasses.
ProcessNodes ==
    {n \in DOMAIN nodes : nodes[n].cls \in {"Calc", "Process", "Workflow"}}

\* The attributes of a node that are neither updatable nor hash-ignored.
HashedAttrs(nd) ==
    [k \in Keys \ (UpdatableAttributes(nd.cls) \cup HashIgnoredAttributes(nd.cls))
        |-> GetAttrs(nd)[k]]

\* C34: get_hash() of a process node depends only on its attributes that are
\* neither hash-ignored nor updatable and on its folder (the computer and the
\* code version are fixed): a write to one of the updatable attributes of a
\* process (checkpoints, exit_status, process_state, ...) or to a hash-ignored
\* attribute, whatever the value and whether the write is accepted or refused,
\* leaves the outcome of get_hash as it was, and two process nodes that agree
\* on the hashed attributes and on the folder have the same hash.
C34_HashIgnoresUpdatable ==
    \A n \in ProcessNodes :
        /\ \A key \in (ProcessUpdatable \cup HashIgnoredAttributes(nodes[n].cls)) \cap Keys,
              value \in {"0", "1", FINISHED, Unhashable} :
              \A strict \in BOOLEAN :
                  GetHashCall(SetAttrNode(nodes[n], key, value, TRUE).nd, strict)
                      = GetHashCall(nodes[n], strict)
        /\ \A m \in ProcessNodes :
              (HashedAttrs(nodes[n]) = HashedAttrs(nodes[m])
                  /\ Folder(nodes[n]) = Folder(nodes[m]))
                  => GetHash(nodes[n]) = GetHash(nodes[m])

\* The stored calculation, finished and with its exit status rewritten, next
\* to an unstored process node without a process state that has the same
\* attribute x and the same file: both have the same hash, and a write of the
\* process state to the unstored one is accepted and keeps it.
C34_Witness ==
    /\ nodes[Source].attributes[EXIT_STATUS_KEY] = "1"
    /\ Fresh \notin rows
    /\ Fresh \in ProcessNodes
    /\ GetAttrs(nodes[Fresh])[PROCESS_STATE_KEY] # GetAttrs(nodes[Source])[PROCESS_STATE_KEY]
    /\ GetHash(nodes[Fresh]) = GetHash(nodes[Source])
    /\ GetHash(nodes[Fresh]) # NoneHash
    /\ \E r \in {SetAttrNode(nodes[Fresh], PROCESS_STATE_KEY, FINISHED, TRUE)} :
          /\ r.exc = "none"
          /\ r.nd # nodes[Fresh]
          /\ GetHash(r.nd) = GetHash(nodes[Fresh])

\* C35 (as stated): _store_cached_input_links on a node is all-or-nothing.
\* Called on an unstored node it raises ModificationNotAllowed and changes
\* nothing; when it raises, no link of the node has been persisted and every
\* link is still in the cache; when it returns from its own transaction, every
\* cached link is persisted and the cache is empty; with an empty cache the
\* node and its persisted links are as before.
C35_CachedLinksAllOrNothing ==
    NoStoreUnderWay =>
        \A n \in Nodes :
            Created(nodes[n]) =>
                \A call \in FlushCalls(n) :
                    \A r \in {StoreCachedInputLinksCall(World, session, n,
                                  call.with_transaction, call.failing, call.commit)} :
                        /\ ~IsStored(nodes[n]) =>
                              /\ r.exc = "ModificationNotAllowed"
                              /\ r.w = World
                              /\ r.session = session
                        /\ r.exc # "none" =>
                              /\ IncomingLinks(r.w, n) = IncomingLinks(World, n)
                              /\ r.w.nodes[n].incoming_cache = nodes[n].incoming_cache
                        /\ (r.exc = "none" /\ call.with_transaction) =>
                              /\ CachedLinkSet(World, n) \subseteq r.w.links
                              /\ r.w.nodes[n].incoming_cache = <<>>
                        /\ nodes[n].incoming_cache = <<>> =>
                              /\ r.w.nodes[n].incoming_cache = <<>>
                              /\ IncomingLinks(r.w, n) \ session.links = IncomingLinks(World, n)

\* C36 (as stated): a lock() attempt that fails with LockError because the
\* node is already locked changes nothing: the step in which the attempt
\* ends with LockError leaves the persisted flag, the registered hooks and
\* every other handle as they were, so that the flag is still true while the
\* holder's scope is active.
C36_FailedLockChangesNothing ==
    [][\A w \in Workers :
          (handles'[w].exc = "LockError" /\ handles'[w] # handles[w]) =>
              /\ dbnode' = dbnode
              /\ hooks' = hooks
              /\ \A v \in Workers \ {w} : handles'[v] = handles[v]
              /\ (dbnode.stored /\ \E v \in Workers \ {w} : handles[v].depth > 0)
                     => dbnode'.public]_vars

\* C39 (as stated): the force_unlock shutdown hook of a handle is registered
\* exactly while a lock() scope of that handle is active: it is registered
\* when the lock is acquired and removed when the scope is left, and a failed
\* attempt, through another handle or through the one that holds the lock,
\* neither registers a hook nor removes the holder's.
C39_HookExactlyWhileHeld == hooks = Holders

\* C37 (as stated): when an exception leaves a store() that had moved the
\* folder, the in-memory node is an unstored node again: is_stored is false,
\* the cached attributes are the ones it had, the handler leaves the cached
\* incoming links alone, the folder is the sandbox with its files, and
\* store() can be called again.
C37_FailedStoreBackToUnstored ==
    [][\A n \in Nodes :
          (pc[n].at = "except" /\ pc'[n].at = "idle") =>
              /\ ~IsStored(nodes'[n])
              /\ ~nodes'[n].cache_deleted
              /\ nodes'[n].attrs_cache = GetAttrs(nodes[n])
              /\ nodes'[n].incoming_cache = nodes[n].incoming_cache
              /\ nodes'[n].temp_folder = pc[n].files
              /\ nodes'[n].repo_folder = NoFolder
              /\ Folder(nodes'[n]) = pc[n].files]_vars

\* C38 (as stated): when store() rejects its cache candidate because the
\* candidate has RETURN links, the node that was being stored is as it was
\* before the call: its label, its description, its attributes and the
\* contents of its sandbox folder are not overwritten with the candidate's.
C38_RejectedCandidateLeavesNode ==
    (Fresh \notin rows) =>
        \A use_cache \in UseCacheArgs, pick \in Picks(World, Fresh) :
            \A r \in {StoreNode(World, Fresh, use_cache, "none", pick)} :
                r.exc = "ValueError" =>
                    /\ r.w.nodes[Fresh].label = nodes[Fresh].label
                    /\ r.w.nodes[Fresh].description = nodes[Fresh].description
                    /\ GetAttrs(r.w.nodes[Fresh]) = GetAttrs(nodes[Fresh])
                    /\ GetTempFolder(r.w.nodes[Fresh]) = GetTempFolder(nodes[Fresh])
                    /\ ~IsStored(r.w.nodes[Fresh])

\* A called calculation and everything it reaches through CALL links.
Subtree(c) == {c} \cup Reached(c)

\* The children of n whose kill() raises InvalidOperation past the handler of
\* the loop: a calculation that is no job and refuses, or a work calculation
\* below which one does.
RaisingChildren(n, refusing) ==
    {c \in Called(World, n) : Subtree(c) \cap refusing # {}}

\* C40: when the kill() of a CALL-linked child that is not a job calculation
\* raises InvalidOperation, kill() of the parent raises it again at once: the
\* kill request that was recorded on the parent and on the children visited
\* before stays, and the children after it, and what they called, are not
\* visited and are as they were.
C40_RefusalEndsKill ==
    \A n \in {m \in Nodes : nodes[m].cls = "Work"}, refusing \in Refusals :
        RaisingChildren(n, refusing) # {} =>
            \A r \in {KillNode(World, n, refusing)},
               first \in {FirstOf(RaisingChildren(n, refusing))} :
                /\ r.exc = "InvalidOperation"
                /\ IsSealed(nodes[n]) \/ HasKillRequest(r.w.nodes[n])
                /\ \A c \in Called(World, n) :
                      /\ c < first =>
                            \/ IsSealed(nodes[c])
                            \/ nodes[c].cls = "Job" /\ IsTerminated(nodes[c])
                            \/ HasKillRequest(r.w.nodes[c])
                      /\ c > first => \A m \in Subtree(c) : r.w.nodes[m] = nodes[m]
                /\ first \in refusing => r.w.nodes[first] = nodes[first]

\* A work calculation has the kill request, the function calculation it
\* called first has none, and the calculation it called after that, running
\* and not sealed, has none either: the first refused and the second was not
\* visited.
C40_Witness ==
    \E n \in Nodes, c \in Nodes, d \in Nodes :
        /\ nodes[n].cls = "Work" /\ HasKillRequest(nodes[n])
        /\ {c, d} \subseteq Called(World, n)
        /\ c < d
        /\ nodes[c].cls = "Function" /\ ~HasKillRequest(nodes[c])
        /\ nodes[d].cls # "Function"
        /\ ~IsTerminated(nodes[d]) /\ ~IsSealed(nodes[d])
        /\ ~HasKillRequest(nodes[d])

====
